---- MODULE Spec2Model ----
(***************************************************************************)
(* Face attendance system: the SQLite attendance ledger                    *)
(* (database.AttendanceTracker), the JSON attendance tracker               *)
(* (attendance.AttendanceTracker), the face identity model                 *)
(* (face_system.FaceSystem) and the pages of app_sqlite.py that use them.  *)
(*                                                                         *)
(* Time is counted in ticks, SubSec ticks to the second, so that           *)
(* datetime.now() carries a sub-second part which strftime drops when a    *)
(* timestamp is stored.  A stored punch_time 'YYYY-MM-DD HH:MM:SS' is the  *)
(* number of whole seconds since the epoch of the model; a stored date     *)
(* 'YYYY-MM-DD' is the number of whole days.  Both orders (string order    *)
(* in SQL, number order here) agree.                                       *)
(***************************************************************************)
EXTENDS Integers, Sequences, FiniteSets, TLC

VARIABLES
  clock,        \* the wall clock, in ticks
  ticks,        \* how often the clock has advanced
  users,        \* table users: rows [id, name]
  nextUserId,   \* AUTOINCREMENT counter of users.id
  attendance,   \* table attendance, in rowid order
  ret,          \* the last call that returned, with the state it started from
  pc,           \* per thread: the statement it is at
  loc,          \* per thread: the locals of the call it is in
  dirExists,    \* data/faces exists
  files,        \* data/faces: file name -> pickled identity record
  self_users,   \* FaceSystem.users: label -> name
  trained,      \* FaceSystem.trained
  recognizer,   \* the classifier in memory: label -> identity it was fitted on
  model_file,   \* models/face_model.yml: <<>> or <<classifier>>
  users_file,   \* models/users.pkl: <<>> or <<label map>>
  tracker,      \* the AttendanceTracker class the app imported
  records,      \* attendance.AttendanceTracker.records: name -> date -> events
  data_file,    \* data/attendance/records.json: <<>> or <<records>>
  firebase,     \* FirebaseManager: initialized, and the documents of the two collections
  caller_ret    \* the last call of a caller of the tracker: HybridStorage, a page

ledgerVars == <<clock, ticks, users, nextUserId, attendance>>
threadVars == <<pc, loc>>
faceVars == <<dirExists, files, self_users, trained, recognizer, model_file, users_file>>
jsonVars == <<tracker, records, data_file>>
mirrorVars == <<firebase, caller_ret>>
vars == <<ledgerVars, ret, threadVars, faceVars, jsonVars, mirrorVars>>

(***************************************************************************)
(* Bounds of the model.                                                    *)
(***************************************************************************)
SubSec == 2
MaxTicks == 1
MaxEvents == 3
MaxUserId == 2
MaxConcTicks == 1
MaxConcEvents == 2
Threads == {1, 2}

(***************************************************************************)
(* Program constants.                                                      *)
(***************************************************************************)
DedupWindow == 300
SecondsPerDay == 86400
ValidTypes == {"in", "out", "break", "lunch"}

DayTicks == SecondsPerDay * SubSec
WindowTicks == DedupWindow * SubSec
\* the clock when the process starts: 23:50:00 or 23:55:01
StartClocks == {DayTicks - 2 * WindowTicks, DayTicks - WindowTicks + SubSec}
\* the clock advances by one tick less than the dedup window, or by the window
Deltas == {WindowTicks - 1, WindowTicks}

LedgerNames == {<<"a">>, <<"b">>}
TypeInputs == {"in", "out", "bogus"}
ConcDeltas == {SubSec}
ConcTypeInputs == {"in", "out"}

\* face identity model
MinSamples == 10
ConfThreshold == 70
PklExt == ".pkl"
FaceNames == {<<"a">>, <<"b">>, <<"a", PklExt>>}
Unknown == <<"Unknown">>
NoIdentity == <<>>
NoFace == <<>>
ConfValues == {ConfThreshold - 1, ConfThreshold}

None == 0
NoRow == [user_id |-> None, punch_type |-> "", punch_time |-> 0, date |-> 0]
NoCall == [op |-> "none"]

(***************************************************************************)
(* datetime: strftime / strptime / timedelta.seconds                       *)
(***************************************************************************)
\* now.strftime('%Y-%m-%d %H:%M:%S'): the sub-second part is dropped
StrfDateTime(now) == now \div SubSec
\* now.strftime('%Y-%m-%d')
StrfDate(now) == now \div DayTicks
\* datetime.strptime(s, '%Y-%m-%d %H:%M:%S'): a datetime with no sub-second part
Strptime(s) == s * SubSec
\* t.strftime('%H:%M:%S'): the time of day
StrfTime(now) == (now % DayTicks) \div SubSec
\* (a - b).seconds: timedelta is normalised to days (possibly negative) plus
\* 0 <= seconds < 86400, so a negative difference wraps around
TimedeltaSeconds(a, b) == ((a - b) % DayTicks) \div SubSec

(***************************************************************************)
(* SQL statements of the ledger                                            *)
(***************************************************************************)
\* SELECT id FROM users WHERE name = ?  (None when there is no row)
get_user_id(usrs, name) ==
  IF \E u \in usrs : u.name = name
  THEN (CHOOSE u \in usrs : u.name = name).id
  ELSE None

\* rows of a user on a date
RowsOf(att, user_id, date) ==
  {i \in 1..Len(att) : att[i].user_id = user_id /\ att[i].date = date}

\* SELECT ... WHERE user_id = ? AND date = ? ORDER BY punch_time DESC LIMIT 1:
\* the rows this query may return.  punch_time has a resolution of one
\* second and SQL leaves the order of rows with equal keys open, so any row
\* with the greatest punch_time is a possible answer (SQLite 3.40 answers
\* the one inserted first); NoRow when fetchone() returns None.
LastRecord(att, user_id, date) ==
  LET rows == RowsOf(att, user_id, date)
  IN IF rows = {} THEN {NoRow}
     ELSE {att[i] : i \in {j \in rows : \A k \in rows : att[k].punch_time <= att[j].punch_time}}

\* the duplicate check with a window that is one second too short
IsDuplicate_ShortWindow(last_record, punch_type, now) ==
  /\ last_record # NoRow
  /\ last_record.punch_type = punch_type
  /\ TimedeltaSeconds(now, Strptime(last_record.punch_time)) < DedupWindow - 1

\* the duplicate check of punch
IsDuplicate(last_record, punch_type, now) ==
  /\ last_record # NoRow
  /\ last_record.punch_type = punch_type
  /\ TimedeltaSeconds(now, Strptime(last_record.punch_time)) < DedupWindow

\* an insert that writes over the last row of the table
InsertAttendance_Replace(att, user_id, punch_type, now) ==
  LET row == [user_id |-> user_id, punch_type |-> punch_type,
              punch_time |-> StrfDateTime(now), date |-> StrfDate(now)]
  IN IF att = <<>> THEN <<row>> ELSE [att EXCEPT ![Len(att)] = row]

\* INSERT INTO attendance (user_id, punch_type, punch_time, date)
InsertAttendance(att, user_id, punch_type, now) ==
  Append(att, [user_id |-> user_id, punch_type |-> punch_type,
               punch_time |-> StrfDateTime(now), date |-> StrfDate(now)])

\* a delete_user that leaves the attendance rows in place
DeleteAttendance_Kept(att, user_id) == att

\* DELETE FROM attendance WHERE user_id = ?
DeleteAttendance(att, user_id) ==
  SelectSeq(att, LAMBDA r : r.user_id # user_id)

\* DELETE FROM users WHERE id = ?
DeleteUserRow(usrs, user_id) == {u \in usrs : u.id # user_id}

\* a connection that keeps what was written before the exception
CloseConnection_Partial(before, after, raised) == after

\* get_connection: a table when the with-block is left, commit() after a
\* normal end and rollback() after an exception
CloseConnection(before, after, raised) == IF raised THEN before ELSE after

\* where the transaction of delete_user may raise (database locked, I/O
\* error): nowhere, or at DELETE FROM users after the attendance rows of
\* the user were deleted
DeleteFaults == {"none", "users"}

(***************************************************************************)
(* Read-only queries of the ledger                                         *)
(***************************************************************************)
\* SELECT name FROM users
get_all_users(usrs) == {u.name : u \in usrs}

\* a history that leaves out the first date of its range (date > ?)
HistoryRows_After(usrs, att, name, days, now) ==
  LET user_id == get_user_id(usrs, name)
      start_date == StrfDate(now - days * DayTicks)
  IN IF user_id = None THEN {}
     ELSE {i \in 1..Len(att) : att[i].user_id = user_id /\ att[i].date > start_date}

\* get_user_history: the rows selected by WHERE user_id = ? AND date >= ?
\* ({} when the user has no record)
HistoryRows(usrs, att, name, days, now) ==
  LET user_id == get_user_id(usrs, name)
      start_date == StrfDate(now - days * DayTicks)
  IN IF user_id = None THEN {}
     ELSE {i \in 1..Len(att) : att[i].user_id = user_id /\ att[i].date >= start_date}

\* the dates that are keys of the dict get_user_history returns
HistoryDates(usrs, att, name, days, now) ==
  {att[i].date : i \in HistoryRows(usrs, att, name, days, now)}

\* get_attendance_summary(date): users LEFT JOIN attendance, grouped by user
\* name; each user maps to the rows (positions) of that date
get_attendance_summary(usrs, att, date) ==
  [n \in get_all_users(usrs) |->
     {i \in 1..Len(att) : att[i].user_id = get_user_id(usrs, n) /\ att[i].date = date}]

\* get_statistics(start_date, end_date)
InRange(r, start_date, end_date) == start_date <= r.date /\ r.date <= end_date

\* statistics whose daily figure counts punches instead of users
get_statistics_PunchCount(usrs, att, start_date, end_date) ==
  LET sel == {i \in 1..Len(att) : InRange(att[i], start_date, end_date)}
  IN [by_type |-> [t \in {att[i].punch_type : i \in sel} |->
                     Cardinality({i \in sel : att[i].punch_type = t})],
      by_user |-> [n \in get_all_users(usrs) |->
                     Cardinality({i \in sel : att[i].user_id = get_user_id(usrs, n)})],
      daily   |-> [d \in {att[i].date : i \in sel} |->
                     Cardinality({j \in sel : att[j].date = d})]]

get_statistics(usrs, att, start_date, end_date) ==
  LET sel == {i \in 1..Len(att) : InRange(att[i], start_date, end_date)}
  IN [by_type |-> [t \in {att[i].punch_type : i \in sel} |->
                     Cardinality({i \in sel : att[i].punch_type = t})],
      by_user |-> [n \in get_all_users(usrs) |->
                     Cardinality({i \in sel : att[i].user_id = get_user_id(usrs, n)})],
      daily   |-> [d \in {att[i].date : i \in sel} |->
                     Cardinality({att[i].user_id : i \in {j \in sel : att[j].date = d}})]]


(***************************************************************************)
(* Initial state: a fresh database (init_database creates empty tables)    *)
(***************************************************************************)
InitTables ==
  /\ clock \in StartClocks
  /\ ticks = 0
  /\ users = {}
  /\ nextUserId = 1
  /\ attendance = <<>>
  /\ ret = NoCall

Idle == [op |-> "idle"]

InitThreads ==
  /\ pc = [p \in Threads |-> "idle"]
  /\ loc = [p \in Threads |-> Idle]

\* FaceSystem as it is left by LBPHFaceRecognizer_create with nothing on disk
InitNoFaces ==
  /\ dirExists = FALSE
  /\ files = <<>>
  /\ self_users = <<>>
  /\ trained = FALSE
  /\ recognizer = <<>>
  /\ model_file = <<>>
  /\ users_file = <<>>

\* app_sqlite.py imports database.AttendanceTracker; the JSON tracker of
\* attendance.py is not constructed
InitNoJson ==
  /\ tracker = "database"
  /\ records = <<>>
  /\ data_file = <<>>

\* no FirebaseManager was constructed
NoMirror == [initialized |-> FALSE, users |-> {}, attendance |-> <<>>]
InitNoMirror ==
  /\ firebase = NoMirror
  /\ caller_ret = NoCall

InitLedger == InitTables /\ InitThreads /\ InitNoFaces /\ InitNoJson /\ InitNoMirror

\* time passes between (and during) calls; datetime.now() reads clock.
\* ret describes a call only until time moves on.
Tick(d, limit) ==
  /\ ticks < limit
  /\ clock' = clock + d
  /\ ticks' = ticks + 1
  /\ ret' = NoCall
  /\ UNCHANGED <<users, nextUserId, attendance, loc, pc, faceVars, jsonVars, mirrorVars>>

(***************************************************************************)
(* AttendanceTracker, one call at a time.  add_user, punch and delete_user *)
(* say nothing about the mirror: their caller does.                        *)
(***************************************************************************)
Call(op, name, ptype, status, msg, now) ==
  [op |-> op, name |-> name, punch_type |-> ptype, status |-> status,
   msg |-> msg, now |-> now, pre_att |-> attendance, pre_users |-> users]

\* an add_user on a users table without the UNIQUE constraint on name
add_user_NoUnique(name) ==
  /\ nextUserId <= MaxUserId
  /\ users' = users \cup {[id |-> nextUserId, name |-> name]}
  /\ nextUserId' = nextUserId + 1
  /\ ret' = Call("add_user", name, "", "ok", <<"added">>, clock)
  /\ UNCHANGED <<clock, ticks, attendance, threadVars, faceVars, jsonVars>>

add_user(name) ==
  IF get_user_id(users, name) # None
  THEN \* UNIQUE constraint: sqlite3.IntegrityError, rolled back
       /\ ret' = Call("add_user", name, "", "fail", <<"already exists">>, clock)
       /\ UNCHANGED <<clock, ticks, users, nextUserId, attendance, threadVars, faceVars, jsonVars>>
  ELSE /\ nextUserId <= MaxUserId
       /\ users' = users \cup {[id |-> nextUserId, name |-> name]}
       /\ nextUserId' = nextUserId + 1
       /\ ret' = Call("add_user", name, "", "ok", <<"added">>, clock)
       /\ UNCHANGED <<clock, ticks, attendance, threadVars, faceVars, jsonVars>>

punch(name, punch_type) ==
  LET user_id0 == get_user_id(users, name)
      created == user_id0 = None
      users1 == IF created THEN users \cup {[id |-> nextUserId, name |-> name]} ELSE users
      user_id == get_user_id(users1, name)
      now == clock
  IN /\ created => nextUserId <= MaxUserId
     /\ users' = users1
     /\ nextUserId' = IF created THEN nextUserId + 1 ELSE nextUserId
     /\ \E last_record \in LastRecord(attendance, user_id, StrfDate(now)) :
          IF IsDuplicate(last_record, punch_type, now)
          THEN /\ ret' = Call("punch", name, punch_type, "fail",
                              <<"Already punched", punch_type,
                                StrfTime(Strptime(last_record.punch_time))>>, now)
               /\ UNCHANGED attendance
          ELSE IF punch_type \notin ValidTypes
          THEN \* CHECK constraint: sqlite3.IntegrityError leaves punch
               \* uncaught, the insert is rolled back
               /\ ret' = Call("punch", name, punch_type, "raise", <<"IntegrityError">>, now)
               /\ UNCHANGED attendance
          ELSE /\ Len(attendance) < MaxEvents
               /\ attendance' = InsertAttendance(attendance, user_id, punch_type, now)
               /\ ret' = Call("punch", name, punch_type, "ok",
                              <<"Punched", punch_type, StrfTime(now)>>, now)
     /\ UNCHANGED <<clock, ticks, threadVars, faceVars, jsonVars>>

delete_user(name) ==
  LET user_id == get_user_id(users, name)
  IN IF user_id = None
     THEN /\ ret' = Call("delete_user", name, "", "fail", <<"User not found">>, clock)
          /\ UNCHANGED <<clock, ticks, users, nextUserId, attendance, threadVars, faceVars, jsonVars>>
     ELSE \E fault \in DeleteFaults :
            LET raised == fault # "none"
                att1 == DeleteAttendance(attendance, user_id)
                users1 == IF raised THEN users ELSE DeleteUserRow(users, user_id)
            IN /\ attendance' = CloseConnection(attendance, att1, raised)
               /\ users' = CloseConnection(users, users1, raised)
               /\ ret' = IF raised
                          THEN Call("delete_user", name, "", "fail", <<"Error deleting user">>, clock)
                          ELSE Call("delete_user", name, "", "ok", <<"deleted">>, clock)
               /\ UNCHANGED <<clock, ticks, nextUserId, threadVars, faceVars, jsonVars>>

NextLedger ==
  \/ \E d \in Deltas : Tick(d, MaxTicks)
  \/ \E n \in LedgerNames : add_user(n) /\ UNCHANGED mirrorVars
  \/ \E n \in LedgerNames, t \in TypeInputs : punch(n, t) /\ UNCHANGED mirrorVars
  \/ \E n \in LedgerNames : delete_user(n) /\ UNCHANGED mirrorVars

SpecLedger == InitLedger /\ [][NextLedger]_vars

(***************************************************************************)
(* AttendanceTracker called from several threads (one Streamlit session    *)
(* each, sharing the tracker of init_systems).  Every get_connection block *)
(* opens a connection of its own and commits when it is left; the SELECT   *)
(* of punch runs before the implicit BEGIN that the INSERT issues, so      *)
(* another connection may commit between the two.                          *)
(***************************************************************************)
InFlight == {q \in Threads : pc[q] \notin {"idle", "done"}}

Goto(p, label) == pc' = [pc EXCEPT ![p] = label]

punch_call(p, name, punch_type) ==
  /\ pc[p] = "idle"
  /\ Goto(p, "get_user_id")
  /\ loc' = [loc EXCEPT ![p] = [op |-> "punch", name |-> name, punch_type |-> punch_type,
                                user_id |-> None, now |-> 0, status |-> "",
                                msg |-> <<>>, overlap |-> InFlight]]
  /\ UNCHANGED <<ledgerVars, jsonVars, mirrorVars, ret, faceVars>>

\* user_id = self.get_user_id(name)
punch_get_user_id(p) ==
  /\ pc[p] = "get_user_id"
  /\ LET user_id == get_user_id(users, loc[p].name)
     IN /\ loc' = [loc EXCEPT ![p].user_id = user_id]
        /\ Goto(p, IF user_id = None THEN "add_user" ELSE "now")
  /\ UNCHANGED <<ledgerVars, jsonVars, mirrorVars, ret, faceVars>>

\* success, msg = self.add_user(name); if not success: return False, msg
punch_add_user(p) ==
  /\ pc[p] = "add_user"
  /\ IF get_user_id(users, loc[p].name) # None
     THEN /\ loc' = [loc EXCEPT ![p].status = "fail", ![p].msg = <<"already exists">>]
          /\ Goto(p, "done")
          /\ UNCHANGED <<users, nextUserId>>
     ELSE /\ nextUserId <= MaxUserId
          /\ users' = users \cup {[id |-> nextUserId, name |-> loc[p].name]}
          /\ nextUserId' = nextUserId + 1
          /\ Goto(p, "get_user_id2")
          /\ UNCHANGED loc
  /\ UNCHANGED <<clock, ticks, attendance, ret, faceVars, jsonVars, mirrorVars>>

\* user_id = self.get_user_id(name), after add_user
punch_get_user_id2(p) ==
  /\ pc[p] = "get_user_id2"
  /\ loc' = [loc EXCEPT ![p].user_id = get_user_id(users, loc[p].name)]
  /\ Goto(p, "now")
  /\ UNCHANGED <<ledgerVars, jsonVars, mirrorVars, ret, faceVars>>

\* now = datetime.now()
punch_now(p) ==
  /\ pc[p] = "now"
  /\ loc' = [loc EXCEPT ![p].now = clock]
  /\ Goto(p, "select")
  /\ UNCHANGED <<ledgerVars, jsonVars, mirrorVars, ret, faceVars>>

\* the SELECT of the last record and the duplicate check
punch_select(p) ==
  /\ pc[p] = "select"
  /\ \E last_record \in LastRecord(attendance, loc[p].user_id, StrfDate(loc[p].now)) :
       IF IsDuplicate(last_record, loc[p].punch_type, loc[p].now)
       THEN /\ loc' = [loc EXCEPT ![p].status = "fail",
                                  ![p].msg = <<"Already punched", loc[p].punch_type,
                                               StrfTime(Strptime(last_record.punch_time))>>]
            /\ Goto(p, "done")
       ELSE /\ Goto(p, "insert")
            /\ UNCHANGED loc
  /\ UNCHANGED <<ledgerVars, jsonVars, mirrorVars, ret, faceVars>>

\* the INSERT and the commit on leaving the with block
punch_insert(p) ==
  /\ pc[p] = "insert"
  /\ IF loc[p].user_id = None \/ loc[p].punch_type \notin ValidTypes
     THEN \* NOT NULL or CHECK constraint: sqlite3.IntegrityError, rolled back
          /\ loc' = [loc EXCEPT ![p].status = "raise", ![p].msg = <<"IntegrityError">>]
          /\ UNCHANGED attendance
     ELSE /\ Len(attendance) < MaxConcEvents
          /\ attendance' = InsertAttendance(attendance, loc[p].user_id,
                                            loc[p].punch_type, loc[p].now)
          /\ loc' = [loc EXCEPT ![p].status = "ok",
                                ![p].msg = <<"Punched", loc[p].punch_type, StrfTime(loc[p].now)>>]
  /\ Goto(p, "done")
  /\ UNCHANGED <<clock, ticks, users, nextUserId, ret, faceVars, jsonVars, mirrorVars>>

delete_call(p, name) ==
  /\ pc[p] = "idle"
  /\ Goto(p, "del_get_user_id")
  /\ loc' = [loc EXCEPT ![p] = [op |-> "delete_user", name |-> name, punch_type |-> "",
                                user_id |-> None, now |-> 0, status |-> "",
                                msg |-> <<>>, overlap |-> InFlight]]
  /\ UNCHANGED <<ledgerVars, jsonVars, mirrorVars, ret, faceVars>>

\* user_id = self.get_user_id(name); if not user_id: return False
delete_get_user_id(p) ==
  /\ pc[p] = "del_get_user_id"
  /\ LET user_id == get_user_id(users, loc[p].name)
     IN IF user_id = None
        THEN /\ loc' = [loc EXCEPT ![p].status = "fail", ![p].msg = <<"User not found">>]
             /\ Goto(p, "done")
        ELSE /\ loc' = [loc EXCEPT ![p].user_id = user_id]
             /\ Goto(p, "del_rows")
  /\ UNCHANGED <<ledgerVars, jsonVars, mirrorVars, ret, faceVars>>

\* both DELETE statements, committed together
delete_rows(p) ==
  /\ pc[p] = "del_rows"
  /\ attendance' = DeleteAttendance(attendance, loc[p].user_id)
  /\ users' = DeleteUserRow(users, loc[p].user_id)
  /\ loc' = [loc EXCEPT ![p].status = "ok", ![p].msg = <<"deleted">>]
  /\ Goto(p, "done")
  /\ UNCHANGED <<clock, ticks, nextUserId, ret, faceVars, jsonVars, mirrorVars>>

\* the call returns (or raises) to the session that made it
call_return(p) ==
  /\ pc[p] = "done"
  /\ Goto(p, "idle")
  /\ loc' = [loc EXCEPT ![p] = Idle]
  /\ UNCHANGED <<ledgerVars, jsonVars, mirrorVars, ret, faceVars>>

NextLedgerConc ==
  \/ \E d \in ConcDeltas : Tick(d, MaxConcTicks)
  \/ \E p \in Threads, n \in LedgerNames, t \in ConcTypeInputs : punch_call(p, n, t)
  \/ \E p \in Threads : punch_get_user_id(p)
  \/ \E p \in Threads : punch_add_user(p)
  \/ \E p \in Threads : punch_get_user_id2(p)
  \/ \E p \in Threads : punch_now(p)
  \/ \E p \in Threads : punch_select(p)
  \/ \E p \in Threads : punch_insert(p)
  \/ \E p \in Threads, n \in LedgerNames : delete_call(p, n)
  \/ \E p \in Threads : delete_get_user_id(p)
  \/ \E p \in Threads : delete_rows(p)
  \/ \E p \in Threads : call_return(p)

SpecLedgerConc == InitLedger /\ [][NextLedgerConc]_vars


(***************************************************************************)
(* The write lock of the database file.  Every connection works on the     *)
(* one file data/attendance.db in the default journal mode: an INSERT      *)
(* begins a transaction that holds the write lock of the file until the    *)
(* with block commits, and the INSERT of another connection waits for the  *)
(* lock; when the timeout of sqlite3.connect runs out it raises            *)
(* OperationalError('database is locked').  A thread holds the lock while  *)
(* it is at "commit".                                                      *)
(***************************************************************************)
WriteLocked(p) == \E q \in Threads \ {p} : pc[q] = "commit"
LockHolder(p) == CHOOSE q \in Threads \ {p} : pc[q] = "commit"

\* add_user inside punch, its INSERT getting the lock
lock_add_user(p) ==
  /\ ~WriteLocked(p)
  /\ punch_add_user(p)

\* add_user inside punch, its INSERT running into the timeout: the
\* OperationalError is caught by `except Exception`, punch returns False
add_user_busy(p) ==
  /\ pc[p] = "add_user"
  /\ WriteLocked(p)
  /\ loc' = [loc EXCEPT ![p].status = "fail",
                        ![p].msg = <<"Error adding user", loc[LockHolder(p)].name>>]
  /\ Goto(p, "done")
  /\ UNCHANGED <<ledgerVars, jsonVars, mirrorVars, ret, faceVars>>

\* cursor.execute(INSERT INTO attendance) getting the lock
punch_execute(p) ==
  /\ pc[p] = "insert"
  /\ ~WriteLocked(p)
  /\ IF loc[p].user_id = None \/ loc[p].punch_type \notin ValidTypes
     THEN /\ loc' = [loc EXCEPT ![p].status = "raise", ![p].msg = <<"IntegrityError">>]
          /\ Goto(p, "done")
     ELSE /\ Len(attendance) < MaxConcEvents
          /\ Goto(p, "commit")
          /\ UNCHANGED loc
  /\ UNCHANGED <<ledgerVars, jsonVars, mirrorVars, ret, faceVars>>

\* cursor.execute(INSERT INTO attendance) running into the timeout: punch
\* catches nothing
punch_busy(p) ==
  /\ pc[p] = "insert"
  /\ WriteLocked(p)
  /\ loc' = [loc EXCEPT ![p].status = "raise",
                        ![p].msg = <<"database is locked", loc[LockHolder(p)].name>>]
  /\ Goto(p, "done")
  /\ UNCHANGED <<ledgerVars, jsonVars, mirrorVars, ret, faceVars>>

\* conn.commit() on leaving the with block
punch_commit(p) ==
  /\ pc[p] = "commit"
  /\ attendance' = InsertAttendance(attendance, loc[p].user_id, loc[p].punch_type, loc[p].now)
  /\ loc' = [loc EXCEPT ![p].status = "ok",
                        ![p].msg = <<"Punched", loc[p].punch_type, StrfTime(loc[p].now)>>]
  /\ Goto(p, "done")
  /\ UNCHANGED <<clock, ticks, users, nextUserId, ret, faceVars, jsonVars, mirrorVars>>

NextLedgerLock ==
  \/ \E p \in Threads, n \in LedgerNames, t \in ConcTypeInputs : punch_call(p, n, t)
  \/ \E p \in Threads : punch_get_user_id(p)
  \/ \E p \in Threads : lock_add_user(p)
  \/ \E p \in Threads : add_user_busy(p)
  \/ \E p \in Threads : punch_get_user_id2(p)
  \/ \E p \in Threads : punch_now(p)
  \/ \E p \in Threads : punch_select(p)
  \/ \E p \in Threads : punch_execute(p)
  \/ \E p \in Threads : punch_busy(p)
  \/ \E p \in Threads : punch_commit(p)
  \/ \E p \in Threads : call_return(p)

SpecLedgerLock == InitLedger /\ [][NextLedgerLock]_vars

(***************************************************************************)
(* FaceSystem.  A name is a sequence of tokens, '.pkl' being one token, so *)
(* that the file name f'{name}.pkl' and the way get_all_users turns a file *)
(* name back into a user name are computed as the code computes them.  A   *)
(* frame is what the cascade finds in it: a sequence of rectangles         *)
(* <<x, y, w, h>>.  An identity record keeps its name and the number of    *)
(* its samples.  The classifier is the map from each label it was fitted   *)
(* with to the identity whose samples carried that label.                  *)
(***************************************************************************)
Rect1 == <<0, 0, 50, 50>>
BlankFrame == [faces |-> <<>>]
FaceFrame == [faces |-> <<Rect1>>]
FrameInputs == {BlankFrame, FaceFrame}

Repeat(x, n) == [i \in 1..n |-> x]
FrameLists == {Repeat(FaceFrame, MinSamples),
               Repeat(FaceFrame, MinSamples - 1) \o <<BlankFrame>>,
               Repeat(FaceFrame, MinSamples) \o <<BlankFrame>>,
               <<BlankFrame>>}

Area(f) == f[3] * f[4]

\* max(faces, key=lambda f: f[2] * f[3]): the index max() ends with when it
\* has looked at faces[i..], best being the index it holds; it replaces
\* what it holds only by a rectangle of greater area
RECURSIVE MaxByArea(_, _, _)
MaxByArea(faces, i, best) ==
  IF i > Len(faces) THEN best
  ELSE MaxByArea(faces, i + 1, IF Area(faces[i]) > Area(faces[best]) THEN i ELSE best)

\* a detect_face that takes the first rectangle of the cascade
detect_face_First(frame) ==
  IF Len(frame.faces) = 0 THEN NoFace
  ELSE frame.faces[1]

\* detect_face: NoFace if the cascade finds nothing, else the rectangle
\* max() selects
detect_face(frame) ==
  IF Len(frame.faces) = 0 THEN NoFace
  ELSE frame.faces[MaxByArea(frame.faces, 2, 1)]

\* the samples register_user keeps from its frames
Samples(frames) == SelectSeq([i \in 1..Len(frames) |-> detect_face(frames[i])],
                             LAMBDA face : face # NoFace)

\* the check of the number of samples, off by one
EnoughSamples_Nine(samples) == ~(Len(samples) < MinSamples - 1)

\* if len(samples) < 10: return False
EnoughSamples(samples) == ~(Len(samples) < MinSamples)

\* os.path.join(self.data_dir, f'{name}.pkl')
FileName(name) == Append(name, PklExt)
\* f.endswith('.pkl')
EndsWithPkl(f) == Len(f) > 0 /\ f[Len(f)] = PklExt
\* f.replace('.pkl', ''): every occurrence is removed
StripPkl(f) == SelectSeq(f, LAMBDA t : t # PklExt)

\* pickle.dump(user_data, f) into data/faces
WriteIdentity(fs, name, samples) ==
  [f \in DOMAIN fs \cup {FileName(name)} |->
     IF f = FileName(name) THEN [name |-> name, samples |-> Len(samples)] ELSE fs[f]]

\* os.listdir(self.data_dir): the files in an order the file system chooses
Listings(fs) ==
  {o \in [1..Cardinality(DOMAIN fs) -> DOMAIN fs] :
     \A i, j \in 1..Cardinality(DOMAIN fs) : i # j => o[i] # o[j]}

\* self.users after the loop of train over user_files
LabelMap(fs, user_files) ==
  [idx \in 0..(Len(user_files) - 1) |-> fs[user_files[idx + 1]].name]

\* recognizer.train(faces, labels): the labels that carry samples
Fit(fs, user_files) ==
  [idx \in {i \in 0..(Len(user_files) - 1) : fs[user_files[i + 1]].samples > 0} |->
     fs[user_files[idx + 1]].name]

\* FaceSystem.get_all_users(), as the set of the names it lists
face_get_all_users(dir, fs) ==
  IF ~dir THEN {} ELSE {StripPkl(f) : f \in {g \in DOMAIN fs : EndsWithPkl(g)}}

\* self.users.get(label, "Unknown")
UsersGet(umap, label) == IF label \in DOMAIN umap THEN umap[label] ELSE Unknown

\* the members of FaceSystem and the model files, as one record
FaceState == [self_users |-> self_users, trained |-> trained, recognizer |-> recognizer,
              model_file |-> model_file, users_file |-> users_file]

\* a train() that sets the trained flag before it checks for identities
TrainOutcome_FlagFirst(dir, fs, listing, st) ==
  LET user_files == SelectSeq(listing, EndsWithPkl)
      cleared == [st EXCEPT !.self_users = <<>>, !.trained = TRUE]
  IN IF ~dir \/ Len(user_files) = 0
     THEN [ok |-> FALSE, st |-> cleared]
     ELSE IF DOMAIN Fit(fs, user_files) = {}
     THEN [ok |-> FALSE, st |-> [cleared EXCEPT !.self_users = LabelMap(fs, user_files)]]
     ELSE [ok |-> TRUE,
           st |-> [self_users |-> LabelMap(fs, user_files),
                   trained |-> TRUE,
                   recognizer |-> Fit(fs, user_files),
                   model_file |-> <<Fit(fs, user_files)>>,
                   users_file |-> <<LabelMap(fs, user_files)>>]]

\* train() run without interruption over the listing the file system gives
TrainOutcome(dir, fs, listing, st) ==
  LET user_files == SelectSeq(listing, EndsWithPkl)
      cleared == [st EXCEPT !.self_users = <<>>]
  IN IF ~dir \/ Len(user_files) = 0
     THEN [ok |-> FALSE, st |-> cleared]
     ELSE IF DOMAIN Fit(fs, user_files) = {}
     THEN [ok |-> FALSE, st |-> [cleared EXCEPT !.self_users = LabelMap(fs, user_files)]]
     ELSE [ok |-> TRUE,
           st |-> [self_users |-> LabelMap(fs, user_files),
                   trained |-> TRUE,
                   recognizer |-> Fit(fs, user_files),
                   model_file |-> <<Fit(fs, user_files)>>,
                   users_file |-> <<LabelMap(fs, user_files)>>]]

\* __init__ and load_model over the model files found on disk
LoadModel(mf, uf) ==
  IF mf = <<>>
  THEN [ok |-> TRUE, self_users |-> <<>>, trained |-> FALSE, recognizer |-> <<>>]
  ELSE IF uf = <<>>
  THEN \* open('models/users.pkl') raises FileNotFoundError
       [ok |-> FALSE, self_users |-> <<>>, trained |-> FALSE, recognizer |-> mf[1]]
  ELSE [ok |-> TRUE, self_users |-> uf[1], trained |-> TRUE, recognizer |-> mf[1]]

SetFaceState(st) ==
  /\ self_users' = st.self_users
  /\ trained' = st.trained
  /\ recognizer' = st.recognizer
  /\ model_file' = st.model_file
  /\ users_file' = st.users_file

\* What the process may find on disk when it starts: nothing (a fresh
\* installation), or the model files of an earlier training whose identity
\* files have since been removed from data/faces (the program itself never
\* removes an identity file).
OldModel == [idx \in {0} |-> <<"a">>]
DiskInputs ==
  {[dir |-> FALSE, files |-> <<>>, model_file |-> <<>>, users_file |-> <<>>],
   [dir |-> TRUE, files |-> <<>>, model_file |-> <<OldModel>>, users_file |-> <<OldModel>>]}

InitFaceSystem ==
  \E disk \in DiskInputs :
    /\ dirExists = disk.dir
    /\ files = disk.files
    /\ model_file = disk.model_file
    /\ users_file = disk.users_file
    /\ self_users = LoadModel(disk.model_file, disk.users_file).self_users
    /\ trained = LoadModel(disk.model_file, disk.users_file).trained
    /\ recognizer = LoadModel(disk.model_file, disk.users_file).recognizer

InitFace == InitTables /\ InitThreads /\ InitFaceSystem /\ InitNoJson /\ InitNoMirror

FaceCall(op, name, frames, status, result) ==
  [op |-> op, name |-> name, frames |-> frames, status |-> status, result |-> result,
   pre_files |-> files, pre_dir |-> dirExists, pre |-> FaceState]

(***************************************************************************)
(* FaceSystem, one call at a time                                          *)
(***************************************************************************)
register_user(name, frames) ==
  LET samples == Samples(frames)
  IN /\ dirExists' = TRUE
     /\ IF ~EnoughSamples(samples)
        THEN /\ ret' = FaceCall("register_user", name, frames, "fail",
                                [msg |-> <<"Only captured", Len(samples)>>])
             /\ UNCHANGED <<files, self_users, trained, recognizer, model_file, users_file>>
        ELSE /\ files' = WriteIdentity(files, name, samples)
             /\ \E listing \in Listings(files') :
                  LET out == TrainOutcome(TRUE, files', listing, FaceState)
                  IN /\ SetFaceState(out.st)
                     /\ ret' = FaceCall("register_user", name, frames,
                                        IF out.ok THEN "ok" ELSE "fail",
                                        [msg |-> IF out.ok THEN <<"Registered", Len(samples)>>
                                                           ELSE <<"Training failed">>])
     /\ UNCHANGED <<ledgerVars, jsonVars, mirrorVars, threadVars>>

train ==
  /\ \E listing \in Listings(files) :
       LET out == TrainOutcome(dirExists, files, listing, FaceState)
       IN /\ SetFaceState(out.st)
          /\ ret' = FaceCall("train", NoIdentity, <<>>, IF out.ok THEN "ok" ELSE "fail", [msg |-> <<>>])
  /\ UNCHANGED <<ledgerVars, jsonVars, mirrorVars, threadVars, dirExists, files>>

\* what recognize(frame) may return: (None, 0) without a face or a trained
\* model, else the name of the label the classifier predicts, or "Unknown"
RecognizeOutcomes(frame) ==
  IF ~trained \/ detect_face(frame) = NoFace
  THEN {[name |-> NoIdentity, result |-> [confidence |-> 0, predicted |-> FALSE]]}
  ELSE {[name |-> IF confidence < ConfThreshold THEN UsersGet(self_users, label) ELSE Unknown,
         result |-> [confidence |-> confidence, predicted |-> TRUE, label |-> label]] :
          label \in DOMAIN recognizer, confidence \in ConfValues}

recognize(frame) ==
  /\ \E o \in RecognizeOutcomes(frame) :
       ret' = FaceCall("recognize", o.name, <<frame>>, "ok", o.result)
  /\ UNCHANGED <<ledgerVars, jsonVars, mirrorVars, threadVars, faceVars>>

\* the process is started again: FaceSystem() is constructed from the disk
restart ==
  LET m == LoadModel(model_file, users_file)
  IN /\ self_users' = m.self_users
     /\ trained' = m.trained
     /\ recognizer' = m.recognizer
     /\ ret' = FaceCall("init", NoIdentity, <<>>, IF m.ok THEN "ok" ELSE "raise", [msg |-> <<>>])
     /\ UNCHANGED <<ledgerVars, jsonVars, mirrorVars, threadVars, dirExists, files, model_file, users_file>>

NextFace ==
  \/ \E n \in FaceNames, fr \in FrameLists : register_user(n, fr)
  \/ train
  \/ \E fr \in FrameInputs : recognize(fr)
  \/ restart

SpecFace == InitFace /\ [][NextFace]_vars


(***************************************************************************)
(* FaceSystem shared by several threads: init_systems caches one           *)
(* FaceSystem for all sessions and no method takes a lock, so the          *)
(* statements of train and recognize interleave.                           *)
(***************************************************************************)
ConcFaceNames == {<<"a">>, <<"b">>}
ConcFrameLists == {Repeat(FaceFrame, MinSamples), <<BlankFrame>>}

\* the locals of a call; a register_user remembers the identity records it
\* found
FaceLocals(op, name, samples) ==
  [op |-> op, name |-> name, samples |-> samples, user_files |-> <<>>, idx |-> 0,
   fit |-> <<>>, label |-> 0, confidence |-> 0, clf |-> <<>>, looked_up |-> FALSE,
   status |-> "", result |-> NoIdentity,
   pre_files |-> IF op = "register_user" THEN files ELSE <<>>]

\* register_user up to the check of the number of samples
reg_call(p, name, frames) ==
  /\ pc[p] = "idle"
  /\ dirExists' = TRUE
  /\ IF ~EnoughSamples(Samples(frames))
     THEN /\ loc' = [loc EXCEPT ![p] = [FaceLocals("register_user", name, Len(Samples(frames)))
                                          EXCEPT !.status = "fail"]]
          /\ Goto(p, "done")
     ELSE /\ loc' = [loc EXCEPT ![p] = FaceLocals("register_user", name, Len(Samples(frames)))]
          /\ Goto(p, "reg_write")
  /\ UNCHANGED <<ledgerVars, jsonVars, mirrorVars, ret, files, self_users, trained, recognizer, model_file, users_file>>

\* pickle.dump(user_data, f)
reg_write(p) ==
  /\ pc[p] = "reg_write"
  /\ files' = [f \in DOMAIN files \cup {FileName(loc[p].name)} |->
                 IF f = FileName(loc[p].name)
                 THEN [name |-> loc[p].name, samples |-> loc[p].samples] ELSE files[f]]
  /\ Goto(p, "train_clear")
  /\ UNCHANGED <<ledgerVars, jsonVars, mirrorVars, ret, loc, dirExists, self_users, trained, recognizer,
                 model_file, users_file>>

\* self.users = {}
train_clear(p) ==
  /\ pc[p] = "train_clear"
  /\ self_users' = <<>>
  /\ Goto(p, "train_list")
  /\ UNCHANGED <<ledgerVars, jsonVars, mirrorVars, ret, loc, dirExists, files, trained, recognizer,
                 model_file, users_file>>

\* os.listdir and the two early returns
train_list(p) ==
  /\ pc[p] = "train_list"
  /\ \E listing \in Listings(files) :
       LET user_files == SelectSeq(listing, EndsWithPkl)
       IN IF ~dirExists \/ Len(user_files) = 0
          THEN /\ loc' = [loc EXCEPT ![p].status = "fail"]
               /\ Goto(p, "done")
          ELSE /\ loc' = [loc EXCEPT ![p].user_files = user_files, ![p].idx = 0, ![p].fit = <<>>]
               /\ Goto(p, "train_load")
  /\ UNCHANGED <<ledgerVars, jsonVars, mirrorVars, ret, faceVars>>

\* one round of the loop: pickle.load, self.users[idx] = name, the samples
train_load(p) ==
  /\ pc[p] = "train_load"
  /\ loc[p].idx < Len(loc[p].user_files)
  /\ LET idx == loc[p].idx
         user_data == files[loc[p].user_files[idx + 1]]
     IN /\ self_users' = [l \in DOMAIN self_users \cup {idx} |->
                            IF l = idx THEN user_data.name ELSE self_users[l]]
        /\ loc' = [loc EXCEPT ![p].idx = idx + 1,
                              ![p].fit = IF user_data.samples > 0
                                         THEN [l \in DOMAIN loc[p].fit \cup {idx} |->
                                                 IF l = idx THEN user_data.name ELSE loc[p].fit[l]]
                                         ELSE loc[p].fit]
  /\ UNCHANGED <<ledgerVars, jsonVars, mirrorVars, ret, pc, dirExists, files, trained, recognizer,
                 model_file, users_file>>

\* if len(faces) == 0: return False; self.recognizer.train(faces, labels)
train_fit(p) ==
  /\ pc[p] = "train_load"
  /\ loc[p].idx = Len(loc[p].user_files)
  /\ IF DOMAIN loc[p].fit = {}
     THEN /\ loc' = [loc EXCEPT ![p].status = "fail"]
          /\ Goto(p, "done")
          /\ UNCHANGED recognizer
     ELSE /\ recognizer' = loc[p].fit
          /\ Goto(p, "train_save")
          /\ UNCHANGED loc
  /\ UNCHANGED <<ledgerVars, jsonVars, mirrorVars, ret, dirExists, files, self_users, trained, model_file, users_file>>

\* self.recognizer.save(self.model_path)
train_save(p) ==
  /\ pc[p] = "train_save"
  /\ model_file' = <<recognizer>>
  /\ Goto(p, "train_dump")
  /\ UNCHANGED <<ledgerVars, jsonVars, mirrorVars, ret, loc, dirExists, files, self_users, trained, recognizer,
                 users_file>>

\* pickle.dump(self.users, f)
train_dump(p) ==
  /\ pc[p] = "train_dump"
  /\ users_file' = <<self_users>>
  /\ Goto(p, "train_flag")
  /\ UNCHANGED <<ledgerVars, jsonVars, mirrorVars, ret, loc, dirExists, files, self_users, trained, recognizer,
                 model_file>>

\* self.trained = True; return True
train_flag(p) ==
  /\ pc[p] = "train_flag"
  /\ trained' = TRUE
  /\ loc' = [loc EXCEPT ![p].status = "ok"]
  /\ Goto(p, "done")
  /\ UNCHANGED <<ledgerVars, jsonVars, mirrorVars, ret, dirExists, files, self_users, recognizer, model_file,
                 users_file>>

\* recognize up to detect_face
rec_call(p, frame) ==
  /\ pc[p] = "idle"
  /\ IF ~trained \/ detect_face(frame) = NoFace
     THEN /\ loc' = [loc EXCEPT ![p] = [FaceLocals("recognize", NoIdentity, 0)
                                          EXCEPT !.status = "ok"]]
          /\ Goto(p, "done")
     ELSE /\ loc' = [loc EXCEPT ![p] = FaceLocals("recognize", NoIdentity, 0)]
          /\ Goto(p, "rec_predict")
  /\ UNCHANGED <<ledgerVars, jsonVars, mirrorVars, ret, faceVars>>

\* label, confidence = self.recognizer.predict(face)
rec_predict(p) ==
  /\ pc[p] = "rec_predict"
  /\ \E label \in DOMAIN recognizer, confidence \in ConfValues :
       /\ loc' = [loc EXCEPT ![p].label = label, ![p].confidence = confidence,
                             ![p].clf = recognizer,
                             ![p].status = IF confidence < ConfThreshold THEN "" ELSE "ok",
                             ![p].result = IF confidence < ConfThreshold THEN NoIdentity ELSE Unknown]
       /\ Goto(p, IF confidence < ConfThreshold THEN "rec_lookup" ELSE "done")
  /\ UNCHANGED <<ledgerVars, jsonVars, mirrorVars, ret, faceVars>>

\* name = self.users.get(label, "Unknown")
rec_lookup(p) ==
  /\ pc[p] = "rec_lookup"
  /\ loc' = [loc EXCEPT ![p].result = UsersGet(self_users, loc[p].label),
                        ![p].looked_up = TRUE, ![p].status = "ok"]
  /\ Goto(p, "done")
  /\ UNCHANGED <<ledgerVars, jsonVars, mirrorVars, ret, faceVars>>

NextFaceConc ==
  \/ \E p \in Threads, n \in ConcFaceNames, fr \in ConcFrameLists : reg_call(p, n, fr)
  \/ \E p \in Threads : reg_write(p)
  \/ \E p \in Threads : train_clear(p)
  \/ \E p \in Threads : train_list(p)
  \/ \E p \in Threads : train_load(p)
  \/ \E p \in Threads : train_fit(p)
  \/ \E p \in Threads : train_save(p)
  \/ \E p \in Threads : train_dump(p)
  \/ \E p \in Threads : train_flag(p)
  \/ \E p \in Threads, fr \in FrameInputs : rec_call(p, fr)
  \/ \E p \in Threads : rec_predict(p)
  \/ \E p \in Threads : rec_lookup(p)
  \/ \E p \in Threads : call_return(p)

SpecFaceConc == InitFace /\ [][NextFaceConc]_vars


(***************************************************************************)
(* FaceSystem with failures: one thread runs register_user and train step  *)
(* by step; a write of train() may raise (the exception leaves             *)
(* register_user, which catches nothing), and the process may die at any   *)
(* step and be started again, FaceSystem() being constructed from the      *)
(* files that were on disk at that moment.                                 *)
(***************************************************************************)
Worker == 1

\* recognizer.save or pickle.dump raises (disk full, no permission): the
\* exception propagates out of train() and out of register_user
train_raise(p) ==
  /\ pc[p] \in {"train_save", "train_dump"}
  /\ loc' = [loc EXCEPT ![p].status = "raise"]
  /\ Goto(p, "done")
  /\ UNCHANGED <<ledgerVars, jsonVars, mirrorVars, ret, faceVars>>

\* the process dies while a call is in flight and is started again
crash ==
  LET m == LoadModel(model_file, users_file)
  IN /\ \E p \in Threads : pc[p] \notin {"idle", "done"}
     /\ self_users' = m.self_users
     /\ trained' = m.trained
     /\ recognizer' = m.recognizer
     /\ pc' = [p \in Threads |-> "idle"]
     /\ loc' = [p \in Threads |-> Idle]
     /\ ret' = FaceCall("init", NoIdentity, <<>>, IF m.ok THEN "ok" ELSE "raise",
                        [msg |-> <<>>, loaded |-> m])
     /\ UNCHANGED <<ledgerVars, jsonVars, mirrorVars, dirExists, files, model_file, users_file>>

NextFaceCrash ==
  \/ \E n \in ConcFaceNames, fr \in ConcFrameLists : reg_call(Worker, n, fr)
  \/ reg_write(Worker)
  \/ train_clear(Worker)
  \/ train_list(Worker)
  \/ train_load(Worker)
  \/ train_fit(Worker)
  \/ train_save(Worker)
  \/ train_dump(Worker)
  \/ train_flag(Worker)
  \/ train_raise(Worker)
  \/ call_return(Worker)
  \/ crash

SpecFaceCrash == InitFace /\ [][NextFaceCrash]_vars

(***************************************************************************)
(* detect_face over what the cascade may return: up to MaxFaces            *)
(* rectangles, some of equal area, in any order.                           *)
(***************************************************************************)
MaxFaces == 3
RectInputs == {Rect1, <<5, 5, 55, 55>>, <<10, 10, 60, 60>>, <<20, 0, 72, 50>>, <<0, 0, 50, 72>>}
DetectFrames ==
  {[faces |-> s] : s \in UNION {[1..n -> RectInputs] : n \in 0..MaxFaces}}

detect(frame) ==
  /\ ret' = [op |-> "detect_face", frame |-> frame, result |-> detect_face(frame)]
  /\ UNCHANGED <<ledgerVars, threadVars, faceVars, jsonVars, mirrorVars>>

NextDetect == \E frame \in DetectFrames : detect(frame)

SpecDetect == InitFace /\ [][NextDetect]_vars

(***************************************************************************)
(* The read-only calls of database.AttendanceTracker, with their results   *)
(* as the code builds them.  A dict is the sequence of its items in        *)
(* insertion order: <<[key, items]>>.                                      *)
(***************************************************************************)
MaxTrackerEvents == 2
MaxTrackerTicks == 1
NoDate == -1
HistoryDays == {0, 1}
SummaryDates == {NoDate, 0}
StatRanges == {<<NoDate, NoDate>>, <<1, 1>>}
\* the names of the model in the order of ORDER BY name
SortedNames == <<<<"a">>, <<"b">>>>
NameRank(n) == CHOOSE i \in 1..Len(SortedNames) : SortedNames[i] = n

\* str.upper() of a punch type
Upper(t) ==
  CASE t = "in" -> "IN" [] t = "out" -> "OUT" [] t = "break" -> "BREAK"
    [] t = "lunch" -> "LUNCH" [] OTHER -> "BOGUS"

\* every enumeration of a finite set
Enumerations(S) ==
  {o \in [1..Cardinality(S) -> S] : \A i, j \in 1..Cardinality(S) : i # j => o[i] # o[j]}

\* SELECT ... ORDER BY: the orders in which the rows S may come back, before
\* being the pairs <<a, b>> of which a sorts before b; rows with equal sort
\* keys come in any order
OrderBy(S, before) ==
  {o \in Enumerations(S) : \A i, j \in 1..Cardinality(S) : i < j => <<o[j], o[i]>> \notin before}

\* {'type': punch_type, 'time': strptime(punch_time).strftime('%H:%M:%S')}
Entry(r) == [type |-> r.punch_type, time |-> StrfTime(Strptime(r.punch_time))]

\* the grouping loop of get_user_history and get_attendance_summary: a key
\* is inserted when it is first seen, an item is appended if there is one
RECURSIVE GroupBy(_, _)
GroupBy(rows, dict) ==
  IF rows = <<>> THEN dict
  ELSE LET r == Head(rows)
           d1 == IF \E i \in 1..Len(dict) : dict[i].key = r.key
                 THEN dict
                 ELSE Append(dict, [key |-> r.key, items |-> <<>>])
           k == CHOOSE i \in 1..Len(d1) : d1[i].key = r.key
       IN GroupBy(Tail(rows), [d1 EXCEPT ![k].items = @ \o r.item])

\* ORDER BY date DESC, punch_time DESC
HistoryBefore(att, i, j) ==
  \/ att[i].date > att[j].date
  \/ att[i].date = att[j].date /\ att[i].punch_time > att[j].punch_time

\* what get_user_history(name, days) may return
HistoryResults(usrs, att, name, days, now) ==
  {GroupBy([k \in 1..Len(o) |-> [key |-> att[o[k]].date, item |-> <<Entry(att[o[k]])>>]], <<>>) :
     o \in OrderBy(HistoryRows(usrs, att, name, days, now),
                   {p \in (1..Len(att)) \X (1..Len(att)) : HistoryBefore(att, p[1], p[2])})}

\* an inner join: no row for a user without events on the date
SummaryJoin_Inner(usrs, att, date) ==
  UNION {{[name |-> u.name, pos |-> i] : i \in RowsOf(att, u.id, date)} : u \in usrs}

\* users u LEFT JOIN attendance a ON u.id = a.user_id AND a.date = ?: a row
\* per matching event, and one row of NULLs (pos 0) for a user without any
SummaryJoin(usrs, att, date) ==
  UNION {LET rows == RowsOf(att, u.id, date)
         IN IF rows = {} THEN {[name |-> u.name, pos |-> 0]}
            ELSE {[name |-> u.name, pos |-> i] : i \in rows} : u \in usrs}

\* ORDER BY u.name, a.punch_time
SummaryBefore(att, a, b) ==
  \/ NameRank(a.name) < NameRank(b.name)
  \/ /\ a.name = b.name /\ a.pos # 0 /\ b.pos # 0
     /\ att[a.pos].punch_time < att[b.pos].punch_time

\* what get_attendance_summary(date) may return
SummaryResults(usrs, att, date) ==
  {GroupBy([k \in 1..Len(o) |->
              [key |-> o[k].name,
               item |-> IF o[k].pos = 0 THEN <<>> ELSE <<Entry(att[o[k].pos])>>]], <<>>) :
     o \in OrderBy(SummaryJoin(usrs, att, date),
                   {p \in SummaryJoin(usrs, att, date) \X SummaryJoin(usrs, att, date) :
                      SummaryBefore(att, p[1], p[2])})}

\* SELECT name FROM users ORDER BY name, as the list get_all_users() returns
AllUsersResult(usrs) ==
  CHOOSE o \in OrderBy(get_all_users(usrs),
                       {p \in get_all_users(usrs) \X get_all_users(usrs) :
                          NameRank(p[1]) < NameRank(p[2])}) : TRUE

\* what get_today_status(name) may return
StatusResults(usrs, att, name, now) ==
  LET user_id == get_user_id(usrs, name)
  IN IF user_id = None THEN {<<"Not registered">>}
     ELSE {IF record = NoRow THEN <<"Not punched in">>
           ELSE <<"Punched", Upper(record.punch_type), StrfTime(Strptime(record.punch_time))>> :
             record \in LastRecord(att, user_id, StrfDate(now))}


\* the read-only calls; ret.msg is what the call returned
get_today_status(name) ==
  /\ \E status \in StatusResults(users, attendance, name, clock) :
       ret' = Call("get_today_status", name, "", "ok", status, clock)
  /\ UNCHANGED <<ledgerVars, jsonVars, mirrorVars, threadVars, faceVars>>

get_user_history(name, days) ==
  /\ \E history \in HistoryResults(users, attendance, name, days, clock) :
       ret' = Call("get_user_history", name, "", "ok", history, clock) @@ [days |-> days]
  /\ UNCHANGED <<ledgerVars, jsonVars, mirrorVars, threadVars, faceVars>>

all_users ==
  /\ ret' = Call("get_all_users", NoIdentity, "", "ok", AllUsersResult(users), clock)
  /\ UNCHANGED <<ledgerVars, jsonVars, mirrorVars, threadVars, faceVars>>

attendance_summary(date) ==
  /\ \E summary \in SummaryResults(users, attendance,
                                   IF date = NoDate THEN StrfDate(clock) ELSE date) :
       ret' = Call("get_attendance_summary", NoIdentity, "", "ok", summary, clock)
                @@ [date |-> IF date = NoDate THEN StrfDate(clock) ELSE date]
  /\ UNCHANGED <<ledgerVars, jsonVars, mirrorVars, threadVars, faceVars>>

statistics(start_date, end_date) ==
  LET start == IF start_date = NoDate THEN StrfDate(clock - 30 * DayTicks) ELSE start_date
      end == IF end_date = NoDate THEN StrfDate(clock) ELSE end_date
  IN /\ ret' = Call("get_statistics", NoIdentity, "", "ok",
                    get_statistics(users, attendance, start, end), clock)
                 @@ [start_date |-> start, end_date |-> end]
     /\ UNCHANGED <<ledgerVars, jsonVars, mirrorVars, threadVars, faceVars>>

(***************************************************************************)
(* attendance.AttendanceTracker: records[name][date] is a list of          *)
(* {'type', 'time'}; save() writes the whole of records to the data file.  *)
(***************************************************************************)
JsonCall(op, name, ptype, status, msg, now) ==
  [op |-> op, name |-> name, punch_type |-> ptype, status |-> status,
   msg |-> msg, now |-> now, pre_records |-> records, pre_file |-> data_file]

\* the number of events in records
JsonEvents(recs) ==
  Cardinality(UNION {UNION {{<<n, d, i>> : i \in 1..Len(recs[n][d])} : d \in DOMAIN recs[n]} :
                       n \in DOMAIN recs})

\* dict[key] = value
SetItem(dict, key, value) ==
  [k \in DOMAIN dict \cup {key} |-> IF k = key THEN value ELSE dict[k]]

json_punch(name, punch_type) ==
  LET now == clock
      date == StrfDate(now)
      time == StrfTime(now)
      recs1 == IF name \notin DOMAIN records THEN SetItem(records, name, <<>>) ELSE records
      recs2 == IF date \notin DOMAIN recs1[name]
               THEN SetItem(recs1, name, SetItem(recs1[name], date, <<>>))
               ELSE recs1
      day == recs2[name][date]
  IN /\ IF Len(day) > 0 /\ day[Len(day)].type = punch_type
        THEN /\ records' = recs2
             /\ ret' = JsonCall("punch", name, punch_type, "fail",
                                <<"Already punched", punch_type, day[Len(day)].time>>, now)
             /\ UNCHANGED data_file
        ELSE /\ JsonEvents(records) < MaxTrackerEvents
             /\ records' = SetItem(recs2, name,
                             SetItem(recs2[name], date,
                                     Append(day, [type |-> punch_type, time |-> time])))
             /\ data_file' = <<records'>>
             /\ ret' = JsonCall("punch", name, punch_type, "ok",
                                <<"Punched", punch_type, time>>, now)
     /\ UNCHANGED <<ledgerVars, threadVars, faceVars, mirrorVars, tracker>>

\* a status call that creates the user's entry the way punch does
json_get_today_status_Creating(name) ==
  /\ ret' = JsonCall("get_today_status", name, "", "ok", <<"Not punched in">>, clock)
  /\ records' = IF name \notin DOMAIN records THEN SetItem(records, name, <<>>) ELSE records
  /\ UNCHANGED <<ledgerVars, threadVars, faceVars, mirrorVars, tracker, data_file>>

json_get_today_status(name) ==
  LET today == StrfDate(clock)
      status == IF name \notin DOMAIN records \/ today \notin DOMAIN records[name]
                THEN <<"Not punched in">>
                ELSE LET recs == records[name][today]
                     IN IF Len(recs) = 0 THEN <<"Not punched in">>
                        ELSE <<"Punched", Upper(recs[Len(recs)].type), recs[Len(recs)].time>>
  IN /\ ret' = JsonCall("get_today_status", name, "", "ok", status, clock)
     /\ UNCHANGED <<ledgerVars, threadVars, faceVars, jsonVars, mirrorVars>>

json_get_user_history(name, days) ==
  LET history ==
        IF name \notin DOMAIN records THEN <<>>
        ELSE LET dates == DOMAIN records[name]
                 all_dates == CHOOSE o \in OrderBy(dates, {p \in dates \X dates : p[1] > p[2]}) : TRUE
                 recent == SubSeq(all_dates, 1, IF days < Len(all_dates) THEN days ELSE Len(all_dates))
             IN [k \in 1..Len(recent) |-> [key |-> recent[k], items |-> records[name][recent[k]]]]
  IN /\ ret' = JsonCall("get_user_history", name, "", "ok", history, clock) @@ [days |-> days]
     /\ UNCHANGED <<ledgerVars, threadVars, faceVars, jsonVars, mirrorVars>>

(***************************************************************************)
(* An attendance tracker, one call at a time: the SQLite tracker of        *)
(* app_sqlite.py or the JSON tracker of app.py                             *)
(***************************************************************************)
\* the tracker is constructed at 23:50:00; the clock advances by the dedup
\* window (to 23:55:00) or by twice the window (to midnight)
TrackerStart == DayTicks - 2 * WindowTicks
TrackerDeltas == {WindowTicks, 2 * WindowTicks}
TrackerTypes == {"in", "out"}

InitTracker ==
  /\ clock = TrackerStart
  /\ ticks = 0
  /\ users = {}
  /\ nextUserId = 1
  /\ attendance = <<>>
  /\ ret = NoCall
  /\ InitThreads /\ InitNoFaces /\ InitNoMirror
  /\ tracker \in {"database", "attendance"}
  /\ records = <<>>
  /\ data_file = <<>>

NextDatabase ==
  /\ tracker = "database"
  /\ \/ \E n \in LedgerNames : add_user(n) /\ UNCHANGED mirrorVars
     \/ /\ Len(attendance) < MaxTrackerEvents
        /\ \E n \in LedgerNames, t \in TrackerTypes : punch(n, t) /\ UNCHANGED mirrorVars
     \/ \E n \in LedgerNames : delete_user(n) /\ UNCHANGED mirrorVars
     \/ \E n \in LedgerNames : get_today_status(n)
     \/ \E n \in LedgerNames, days \in HistoryDays : get_user_history(n, days)
     \/ all_users
     \/ \E date \in SummaryDates : attendance_summary(date)
     \/ \E r \in StatRanges : statistics(r[1], r[2])

NextAttendance ==
  /\ tracker = "attendance"
  /\ \/ \E n \in LedgerNames, t \in TypeInputs : json_punch(n, t)
     \/ \E n \in LedgerNames : json_get_today_status(n)
     \/ \E n \in LedgerNames, days \in HistoryDays : json_get_user_history(n, days)

NextTracker ==
  \/ \E d \in TrackerDeltas : Tick(d, MaxTrackerTicks)
  \/ NextDatabase
  \/ NextAttendance

SpecTracker == InitTracker /\ [][NextTracker]_vars


(***************************************************************************)
(* HybridStorage: database.AttendanceTracker as the local tracker and      *)
(* FirebaseManager as the mirror.  Every method of FirebaseManager returns *)
(* (False, ...) when Firebase is not initialized and catches the           *)
(* exceptions of the Firestore client, so a call of the mirror either      *)
(* changes the collection or reports an error.                             *)
(***************************************************************************)
MaxMirrorEvents == 2
MaxMirrorTicks == 1
\* a call of the Firestore client works, or raises inside the try block
MirrorFaults == {"none", "error"}
HybridDeltas == {WindowTicks}
HybridTypes == {"in", "bogus"}

\* FirebaseManager.is_initialized()
is_initialized(fb) == fb.initialized

\* FirebaseManager.add_user: collection('users').document(name).set(...)
firebase_add_user(fb, name, fault) ==
  IF ~fb.initialized \/ fault = "error"
  THEN [ok |-> FALSE, fb |-> fb]
  ELSE [ok |-> TRUE, fb |-> [fb EXCEPT !.users = @ \cup {name}]]

\* FirebaseManager.delete_user: collection('users').document(name).delete()
firebase_delete_user(fb, name, fault) ==
  IF ~fb.initialized \/ fault = "error"
  THEN [ok |-> FALSE, fb |-> fb]
  ELSE [ok |-> TRUE, fb |-> [fb EXCEPT !.users = @ \ {name}]]

\* FirebaseManager.log_attendance: collection('attendance').add(...)
log_attendance(fb, name, punch_type, now, fault) ==
  IF ~fb.initialized \/ fault = "error"
  THEN [ok |-> FALSE, fb |-> fb]
  ELSE [ok |-> TRUE,
        fb |-> [fb EXCEPT !.attendance =
                  Append(@, [user_name |-> name, punch_type |-> punch_type,
                             date |-> StrfDate(now), time |-> StrfTime(now)])]]

\* a HybridStorage that lets the mirror decide: success of both
HybridFlag_Both(initialized, local_success, firebase_success) ==
  IF initialized THEN local_success /\ firebase_success ELSE local_success

\* the flag add_user and delete_user of HybridStorage return
HybridFlag(initialized, local_success, firebase_success) ==
  IF initialized
  THEN IF local_success THEN TRUE ELSE FALSE
  ELSE local_success

\* the result of a call of HybridStorage: an exception of the local tracker
\* leaves the call, a flag becomes "ok" or "fail"
HybridStatus(local_status, flag) ==
  IF local_status = "raise" THEN "raise" ELSE IF flag THEN "ok" ELSE "fail"

HybridCall(op, name, ptype, status, local, mirror) ==
  [op |-> op, name |-> name, punch_type |-> ptype, status |-> status, local |-> local,
   mirror |-> mirror]

\* how the mirror took part in a call
MirrorPart(called, fault) ==
  IF ~called THEN "not called" ELSE IF fault = "error" THEN "error" ELSE "ok"

hybrid_add_user(name) ==
  /\ add_user(name)
  /\ \E fault \in MirrorFaults :
       LET local_success == ret'.status = "ok"
           called == is_initialized(firebase)
           m == firebase_add_user(firebase, name, fault)
       IN /\ firebase' = IF called THEN m.fb ELSE firebase
          /\ caller_ret' = HybridCall("add_user", name, "",
                                      HybridStatus(ret'.status,
                                                   HybridFlag(called, local_success, m.ok)),
                                      ret'.status, MirrorPart(called, fault))

hybrid_punch(name, punch_type) ==
  /\ Len(attendance) < MaxMirrorEvents
  /\ Len(firebase.attendance) < MaxMirrorEvents
  /\ punch(name, punch_type)
  /\ \E fault \in MirrorFaults :
       LET local_success == ret'.status = "ok"
           called == local_success /\ is_initialized(firebase)
           m == log_attendance(firebase, name, punch_type, clock, fault)
       IN /\ firebase' = IF called THEN m.fb ELSE firebase
          /\ caller_ret' = HybridCall("punch", name, punch_type,
                                      HybridStatus(ret'.status, local_success),
                                      ret'.status, MirrorPart(called, fault))

hybrid_delete_user(name) ==
  /\ delete_user(name)
  /\ \E fault \in MirrorFaults :
       LET local_success == ret'.status = "ok"
           called == is_initialized(firebase)
           m == firebase_delete_user(firebase, name, fault)
       IN /\ firebase' = IF called THEN m.fb ELSE firebase
          /\ caller_ret' = HybridCall("delete_user", name, "",
                                      HybridStatus(ret'.status,
                                                   HybridFlag(called, local_success, m.ok)),
                                      ret'.status, MirrorPart(called, fault))

\* HybridStorage over a FirebaseManager that found its credentials, or not
InitHybrid ==
  /\ clock = TrackerStart
  /\ ticks = 0
  /\ users = {}
  /\ nextUserId = 1
  /\ attendance = <<>>
  /\ ret = NoCall
  /\ InitThreads /\ InitNoFaces /\ InitNoJson
  /\ firebase \in {NoMirror, [NoMirror EXCEPT !.initialized = TRUE]}
  /\ caller_ret = NoCall

NextHybrid ==
  \/ \E d \in HybridDeltas : Tick(d, MaxMirrorTicks)
  \/ \E n \in LedgerNames : hybrid_add_user(n)
  \/ \E n \in LedgerNames, t \in HybridTypes : hybrid_punch(n, t)
  \/ \E n \in LedgerNames : hybrid_delete_user(n)

SpecHybrid == InitHybrid /\ [][NextHybrid]_vars

(***************************************************************************)
(* migrate_to_sqlite.py: the records the JSON tracker saved are copied     *)
(* into the SQLite ledger.  The script may be run again.                   *)
(***************************************************************************)
MaxMigratedRows == 4

\* the records of the file: <<username, date, index in the list of the date>>
JsonItems(json_data) ==
  UNION {UNION {{<<n, d, i>> : i \in 1..Len(json_data[n][d])} : d \in DOMAIN json_data[n]} :
           n \in DOMAIN json_data}

\* the place of x in the sequence order
Rank(order, x) == CHOOSE i \in 1..Len(order) : order[i] = x

\* the orders in which the three nested loops may visit the records, the
\* users being visited in the order names: user after user, for each user
\* date after date, the records of a date in the order of their list
LoopOrders(json_data, names) ==
  {o \in Enumerations(JsonItems(json_data)) :
     \A a, b \in 1..Len(o) :
       a < b =>
         /\ Rank(names, o[a][1]) <= Rank(names, o[b][1])
         /\ (o[a][1] = o[b][1] /\ o[a][2] = o[b][2]) => o[a][3] < o[b][3]
         /\ \A c \in 1..Len(o) :
              (b < c /\ o[a][1] = o[c][1] /\ o[a][2] = o[c][2])
              => (o[b][1] = o[a][1] /\ o[b][2] = o[a][2])}

\* f"{date} {time_str}"
JoinDateTime(date, time_str) == date * SecondsPerDay + time_str

\* tracker.add_user(username) for names[i..], whose failure on a name that
\* exists is ignored
RECURSIVE MigrateUsers(_, _, _)
MigrateUsers(us, names, i) ==
  IF i > Len(names) THEN us
  ELSE MigrateUsers(IF get_user_id(us, names[i]) # None THEN us
                    ELSE us \cup {[id |-> nextUserId + Cardinality(us) - Cardinality(users),
                                   name |-> names[i]]},
                    names, i + 1)

\* the INSERT statements for o[i..], each committed by its own connection
RECURSIVE MigrateRows(_, _, _, _, _)
MigrateRows(att, us, json_data, o, i) ==
  IF i > Len(o) THEN att
  ELSE LET rec == json_data[o[i][1]][o[i][2]][o[i][3]]
       IN MigrateRows(Append(att, [user_id |-> get_user_id(us, o[i][1]),
                                   punch_type |-> rec.type,
                                   punch_time |-> JoinDateTime(o[i][2], rec.time),
                                   date |-> o[i][2]]),
                      us, json_data, o, i + 1)

\* the records of o that the script reaches: all, or those before the first
\* one whose type the CHECK constraint refuses (sqlite3.IntegrityError ends
\* the script)
Reached(json_data, o) ==
  LET bad == {i \in 1..Len(o) : json_data[o[i][1]][o[i][2]][o[i][3]].type \notin ValidTypes}
  IN IF bad = {} THEN Len(o)
     ELSE (CHOOSE i \in bad : \A k \in bad : i <= k) - 1

migrate_json_to_sqlite ==
  IF data_file = <<>>
  THEN \* No JSON file found. Nothing to migrate.
       /\ ret' = Call("migrate", <<>>, "", "nothing", <<>>, clock)
       /\ UNCHANGED <<ledgerVars, threadVars, faceVars, jsonVars, mirrorVars>>
  ELSE LET json_data == data_file[1]
       IN /\ Len(attendance) + Cardinality(JsonItems(json_data)) <= MaxMigratedRows
          /\ \E names \in Enumerations(DOMAIN json_data) :
               \E o \in LoopOrders(json_data, names) :
                 LET reached == Reached(json_data, o)
                     raised == reached < Len(o)
                     visited == IF raised
                                THEN SubSeq(names, 1, Rank(names, o[reached + 1][1]))
                                ELSE names
                     users1 == MigrateUsers(users, visited, 1)
                 IN /\ Cardinality(users1) - Cardinality(users) <= MaxUserId + 1 - nextUserId
                    /\ users' = users1
                    /\ nextUserId' = nextUserId + Cardinality(users1) - Cardinality(users)
                    /\ attendance' = MigrateRows(attendance, users1, json_data,
                                                 SubSeq(o, 1, reached), 1)
                    /\ ret' = Call("migrate", <<>>, "", IF raised THEN "raise" ELSE "ok",
                                   <<>>, clock)
          /\ UNCHANGED <<clock, ticks, threadVars, faceVars, jsonVars, mirrorVars>>

\* the JSON tracker of app.py wrote the file that the script reads
InitMigrate == InitTracker /\ tracker = "attendance"

NextMigrate ==
  \/ \E d \in TrackerDeltas : Tick(d, MaxTrackerTicks)
  \/ \E n \in LedgerNames, t \in TypeInputs : json_punch(n, t)
  \/ migrate_json_to_sqlite

SpecMigrate == InitMigrate /\ [][NextMigrate]_vars

(***************************************************************************)
(* The pages of app_sqlite.py: one FaceSystem and one AttendanceTracker    *)
(* behind the Streamlit pages, one button at a time.  ret is the call of   *)
(* the tracker or of the face system that the page made last, caller_ret   *)
(* the run of the page Mark Attendance while that page is shown.           *)
(***************************************************************************)
MaxAppEvents == 2
AppNames == {<<"a">>, <<"b">>}
AppFrameLists == {Repeat(FaceFrame, MinSamples), Repeat(FaceFrame, MinSamples - 1) \o <<BlankFrame>>}
AppButtons == {"in", "out", "break"}
NoButton == "none"
LiveThreshold == 100
VarianceInputs == {LiveThreshold, LiveThreshold + 1}

\* anti_spoof_check: the frame is live iff the variance of its Laplacian
\* is greater than 100
anti_spoof_check(variance) == variance > LiveThreshold

InitApp == InitTables /\ InitThreads /\ InitNoFaces /\ InitNoJson /\ InitNoMirror

\* Register New User, button Complete Registration: register_user and,
\* when it succeeded, add_user (whose result the page ignores)
complete_registration(name, frames) ==
  LET samples == Samples(frames)
  IN /\ dirExists' = TRUE
     /\ IF ~EnoughSamples(samples)
        THEN /\ ret' = FaceCall("register_user", name, frames, "fail",
                                [msg |-> <<"Only captured", Len(samples)>>])
             /\ UNCHANGED <<files, self_users, trained, recognizer, model_file, users_file,
                            users, nextUserId>>
        ELSE /\ files' = WriteIdentity(files, name, samples)
             /\ \E listing \in Listings(files') :
                  LET out == TrainOutcome(TRUE, files', listing, FaceState)
                      known == get_user_id(users, name) # None
                  IN /\ SetFaceState(out.st)
                     /\ (out.ok /\ ~known) => nextUserId <= MaxUserId
                     /\ users' = IF out.ok /\ ~known
                                 THEN users \cup {[id |-> nextUserId, name |-> name]}
                                 ELSE users
                     /\ nextUserId' = IF out.ok /\ ~known THEN nextUserId + 1 ELSE nextUserId
                     /\ ret' = IF out.ok
                                THEN Call("add_user", name, "", IF known THEN "fail" ELSE "ok",
                                          IF known THEN <<"already exists">> ELSE <<"added">>, clock)
                                ELSE FaceCall("register_user", name, frames, "fail",
                                              [msg |-> <<"Training failed">>])
     /\ caller_ret' = NoCall
     /\ UNCHANGED <<clock, ticks, attendance, threadVars, jsonVars, firebase>>

\* what one run of the page Mark Attendance did with the captured frame
PageRun(frame, variance, is_real, recognized, name, confidence, button, punched) ==
  [op |-> "mark_attendance", frame |-> frame, variance |-> variance, is_real |-> is_real,
   recognized |-> recognized, name |-> name, confidence |-> confidence, button |-> button,
   punched |-> punched]

\* a page Mark Attendance that recognizes whatever anti_spoof_check says
mark_attendance_NoLiveness(frame, variance, button) ==
  LET is_real == anti_spoof_check(variance)
  IN \E o \in RecognizeOutcomes(frame) :
       IF o.name # NoIdentity /\ o.name # Unknown /\ button # NoButton
       THEN /\ Len(attendance) < MaxAppEvents
            /\ punch(o.name, button)
            /\ caller_ret' = PageRun(frame, variance, is_real, TRUE, o.name,
                                     o.result.confidence, button, TRUE)
            /\ UNCHANGED firebase
       ELSE /\ caller_ret' = PageRun(frame, variance, is_real, TRUE, o.name,
                                     o.result.confidence, button, FALSE)
            /\ ret' = FaceCall("recognize", o.name, <<frame>>, "ok", o.result)
            /\ UNCHANGED <<ledgerVars, threadVars, faceVars, jsonVars, firebase>>

\* Mark Attendance, one run of the script over a captured frame, with or
\* without a punch button pressed: anti_spoof_check, then recognize only
\* for a live frame, then the punch buttons only for a name other than
\* None and "Unknown"
mark_attendance(frame, variance, button) ==
  LET is_real == anti_spoof_check(variance)
  IN IF ~is_real
     THEN /\ caller_ret' = PageRun(frame, variance, FALSE, FALSE, NoIdentity, 0, button, FALSE)
          /\ ret' = NoCall
          /\ UNCHANGED <<ledgerVars, threadVars, faceVars, jsonVars, firebase>>
     ELSE \E o \in RecognizeOutcomes(frame) :
            IF o.name # NoIdentity /\ o.name # Unknown /\ button # NoButton
            THEN /\ Len(attendance) < MaxAppEvents
                 /\ punch(o.name, button)
                 /\ caller_ret' = PageRun(frame, variance, TRUE, TRUE, o.name,
                                          o.result.confidence, button, TRUE)
                 /\ UNCHANGED firebase
            ELSE /\ caller_ret' = PageRun(frame, variance, TRUE, TRUE, o.name,
                                          o.result.confidence, button, FALSE)
                 /\ ret' = FaceCall("recognize", o.name, <<frame>>, "ok", o.result)
                 /\ UNCHANGED <<ledgerVars, threadVars, faceVars, jsonVars, firebase>>

\* Settings, button Delete User for a name of the select box: only
\* attendance_tracker.delete_user (and the Firebase mirror) is called
settings_delete_user(name) ==
  /\ name \in get_all_users(users)
  /\ delete_user(name)
  /\ caller_ret' = NoCall
  /\ UNCHANGED firebase

NextApp ==
  \/ \E n \in AppNames, fr \in AppFrameLists : complete_registration(n, fr)
  \/ \E fr \in FrameInputs, v \in VarianceInputs, b \in AppButtons \cup {NoButton} :
       mark_attendance(fr, v, b)
  \/ \E n \in AppNames : settings_delete_user(n)

SpecApp == InitApp /\ [][NextApp]_vars


(***************************************************************************)
(* Properties of the ledger, one call at a time (SpecLedger)               *)
(***************************************************************************)
DateInputs == {0, 1}
DaysInputs == {0, 1, 7}

\* the event most recently stored for a user on a date (NoRow if none)
MostRecent(att, user_id, date) ==
  LET rows == RowsOf(att, user_id, date)
  IN IF rows = {} THEN NoRow
     ELSE att[CHOOSE i \in rows : \A k \in rows : k <= i]

\* the most recent event of the caller's user on the date of the call, in
\* the state the last punch call started from
RecentBefore == MostRecent(ret.pre_att, get_user_id(ret.pre_users, ret.name), StrfDate(ret.now))

PunchReturned == ret.op = "punch"

\* C1: punch(user, t) fails and writes nothing whenever the event most
\* recently stored for the user today has type t and was recorded fewer
\* than 300 seconds before now; the message carries the time of that punch.
C1_DuplicateRejected ==
  (/\ PunchReturned
   /\ RecentBefore # NoRow
   /\ RecentBefore.punch_type = ret.punch_type
   /\ ret.now - Strptime(RecentBefore.punch_time) >= 0
   /\ ret.now - Strptime(RecentBefore.punch_time) < WindowTicks)
  => /\ ret.status = "fail"
     /\ attendance = ret.pre_att
     /\ ret.msg = <<"Already punched", ret.punch_type, StrfTime(Strptime(RecentBefore.punch_time))>>

C3_OtherTypeOrLaterAccepted ==
  (/\ PunchReturned
   /\ ret.punch_type \in ValidTypes
   /\ RecentBefore # NoRow
   /\ \/ RecentBefore.punch_type # ret.punch_type
      \/ ret.now - Strptime(RecentBefore.punch_time) > WindowTicks)
  => /\ ret.status = "ok"
     /\ attendance = InsertAttendance(ret.pre_att, get_user_id(ret.pre_users, ret.name),
                                      ret.punch_type, ret.now)

\* C10: after delete_user(name) succeeds the user's history is empty for
\* every days argument, the name is in neither get_all_users() nor the
\* summary, and the statistics of every range count none of the punches the
\* user had before.
DeleteReturned == ret.op = "delete_user" /\ ret.status = "ok"

OthersBefore(start_date, end_date) ==
  {i \in 1..Len(ret.pre_att) :
     /\ ret.pre_att[i].user_id # get_user_id(ret.pre_users, ret.name)
     /\ InRange(ret.pre_att[i], start_date, end_date)}

C10_DeletionCascade ==
  DeleteReturned =>
    /\ \A d \in DaysInputs : HistoryDates(users, attendance, ret.name, d, clock) = {}
    /\ ret.name \notin get_all_users(users)
    /\ \A d \in DateInputs : ret.name \notin DOMAIN get_attendance_summary(users, attendance, d)
    /\ \A s, e \in DateInputs :
         LET st == get_statistics(users, attendance, s, e)
             others == OthersBefore(s, e)
         IN /\ ret.name \notin DOMAIN st.by_user
            /\ \A t \in ValidTypes :
                 Cardinality({i \in others : ret.pre_att[i].punch_type = t})
                   = IF t \in DOMAIN st.by_type THEN st.by_type[t] ELSE 0
            /\ \A d \in DateInputs :
                 Cardinality({ret.pre_att[i].user_id : i \in {k \in others : ret.pre_att[k].date = d}})
                   = IF d \in DOMAIN st.daily THEN st.daily[d] ELSE 0

\* a user with stored punches was deleted while another user's punches stay
C10_Witness ==
  /\ DeleteReturned
  /\ \E i \in 1..Len(ret.pre_att) :
       ret.pre_att[i].user_id = get_user_id(ret.pre_users, ret.name)
  /\ Len(attendance) > 0

\* C11: delete_user(name) of a name without a user record fails with
\* 'User not found' and changes nothing; otherwise it either removes the
\* user row together with all attendance rows of the user and succeeds, or
\* (on an error during the deletion) fails and removes nothing.
DeleteCalled == ret.op = "delete_user"

C11_DeleteAtomic ==
  DeleteCalled =>
    LET user_id == get_user_id(ret.pre_users, ret.name)
    IN IF user_id = None
       THEN /\ ret.status = "fail" /\ ret.msg = <<"User not found">>
            /\ users = ret.pre_users /\ attendance = ret.pre_att
       ELSE \/ /\ ret.status = "ok"
               /\ users = {u \in ret.pre_users : u.name # ret.name}
               /\ attendance = SelectSeq(ret.pre_att, LAMBDA r : r.user_id # user_id)
            \/ /\ ret.status = "fail"
               /\ users = ret.pre_users /\ attendance = ret.pre_att

\* the deletion of a user with stored punches failed half way
C11_Witness ==
  /\ DeleteCalled /\ ret.status = "fail" /\ ret.msg = <<"Error deleting user">>
  /\ \E i \in 1..Len(ret.pre_att) :
       ret.pre_att[i].user_id = get_user_id(ret.pre_users, ret.name)


\* C33: a punch that does not succeed returns (False, message) instead of
\* raising, and leaves the users and the events as they were.
C33_FailedPunchChangesNothing ==
  PunchReturned =>
    /\ ret.status \in {"ok", "fail"}
    /\ ret.status # "ok" => (users = ret.pre_users /\ attendance = ret.pre_att)

(***************************************************************************)
(* Properties of the ledger under concurrent calls (SpecLedgerConc)        *)
(***************************************************************************)
Overlapped(p, q) == p \in loc[q].overlap \/ q \in loc[p].overlap

\* C4: of two overlapping punch calls for the same user and type made
\* within the dedup window, at most one passes the duplicate check and
\* writes an event.
C4_AtMostOneWrites ==
  \A p, q \in Threads :
    (/\ p # q
     /\ pc[p] = "done" /\ pc[q] = "done"
     /\ loc[p].op = "punch" /\ loc[q].op = "punch"
     /\ Overlapped(p, q)
     /\ loc[p].name = loc[q].name
     /\ loc[p].punch_type = loc[q].punch_type
     /\ StrfDate(loc[p].now) = StrfDate(loc[q].now)
     /\ loc[p].now - loc[q].now < WindowTicks
     /\ loc[q].now - loc[p].now < WindowTicks)
    => ~(loc[p].status = "ok" /\ loc[q].status = "ok")

\* C31: the events of any one user are stored in non-decreasing order of
\* punch_time, also when punch calls for that user overlap.
C31_EventsInTimeOrder ==
  \A i, j \in 1..Len(attendance) :
    (i < j /\ attendance[i].user_id = attendance[j].user_id)
    => attendance[i].punch_time <= attendance[j].punch_time

\* C32: a punch for a user that was unknown when the call started either
\* records its event or is rejected as a duplicate punch; it never fails
\* with 'already exists'.
C32_ImplicitUserNeverExists ==
  \A p \in Threads :
    (pc[p] = "done" /\ loc[p].op = "punch")
    => /\ loc[p].msg # <<"already exists">>
       /\ loc[p].status = "ok" \/ (loc[p].status = "fail" /\ loc[p].msg[1] = "Already punched")

\* C37: every attendance row references a row of users, whatever punch and
\* delete_user calls overlap.
C37_EventsReferenceUsers ==
  \A i \in 1..Len(attendance) : \E u \in users : u.id = attendance[i].user_id

\* C34: a punch for one user never has to wait for the transaction of a
\* punch for another user that is in progress, and never fails because of
\* it.
C34_OtherUsersNeverBlock ==
  \A p \in Threads :
    /\ (pc[p] \in {"insert", "add_user"} /\ WriteLocked(p))
         => loc[LockHolder(p)].name = loc[p].name
    /\ (pc[p] = "done" /\ loc[p].op = "punch" /\ Len(loc[p].msg) = 2
          /\ loc[p].msg[1] \in {"database is locked", "Error adding user"})
         => loc[p].msg[2] = loc[p].name

(***************************************************************************)
(* Properties of FaceSystem, one call at a time (SpecFace)                 *)
(***************************************************************************)
\* C6: either the model is untrained and recognize returns no identity, or
\* it is trained, the label map is not empty and every label of the
\* classifier is a key of the label map.
C6_UntrainedOrResolvable ==
  IF trained
  THEN self_users # <<>> /\ DOMAIN recognizer \subseteq DOMAIN self_users
  ELSE ret.op = "recognize" => ret.name = NoIdentity

\* C7: a train() that fails leaves the classifier, the label map, the
\* trained flag and the model files as they were before the call.
C7_FailedTrainKeepsModel ==
  (ret.op = "train" /\ ret.status = "fail") => FaceState = ret.pre

\* the frames of the last call in which the cascade finds a face
FramesWithFace == {i \in 1..Len(ret.frames) : Len(ret.frames[i].faces) > 0}

\* C8: register_user with fewer than 10 frames that show a face fails,
\* creates or overwrites no identity record and does not train.
C8_TooFewSamplesRejected ==
  (ret.op = "register_user" /\ Cardinality(FramesWithFace) < MinSamples)
  => /\ ret.status = "fail"
     /\ files = ret.pre_files
     /\ FaceState = ret.pre

\* nine frames with a face were turned down while a trained model exists
C8_Witness ==
  /\ ret.op = "register_user"
  /\ Cardinality(FramesWithFace) = MinSamples - 1
  /\ ret.status = "fail"
  /\ trained /\ DOMAIN files # {}

\* C9: after register_user(name, frames) succeeds, name is in
\* get_all_users(), the model is trained and the names of the label map
\* are the names of all persisted identity records.
C9_RegisteredIsListed ==
  (ret.op = "register_user" /\ ret.status = "ok")
  => /\ ret.name \in face_get_all_users(dirExists, files)
     /\ trained
     /\ {self_users[l] : l \in DOMAIN self_users} = {files[f].name : f \in DOMAIN files}

\* the label maps train() can build over the identity files fs
TrainedMaps(fs) == {LabelMap(fs, SelectSeq(l, EndsWithPkl)) : l \in Listings(fs)}

\* C24: for a trained model and a frame with a face, recognize returns the
\* name the label map gives to the label of the classifier when the score
\* is below 70, and "Unknown" when the score is 70 or more.
C24_ThresholdResolves ==
  (ret.op = "recognize" /\ ret.pre.trained /\ ret.result.predicted)
  => IF ret.result.confidence < ConfThreshold
     THEN /\ ret.result.label \in DOMAIN ret.pre.self_users
          /\ ret.name = ret.pre.self_users[ret.result.label]
     ELSE ret.name = Unknown

\* C25: train() over the identity files an earlier training ran over
\* yields the label map of that earlier training.
C25_TrainIdempotent ==
  (ret.op = "train" /\ ret.status = "ok" /\ ret.pre.trained
     /\ ret.pre.self_users \in TrainedMaps(ret.pre_files))
  => self_users = ret.pre.self_users

C5_LabelResolvedInSameRun ==
  \A p \in Threads :
    (pc[p] = "done" /\ loc[p].op = "recognize" /\ loc[p].looked_up)
    => loc[p].result = loc[p].clf[loc[p].label]

(***************************************************************************)
(* Properties of FaceSystem with failures (SpecFaceCrash)                  *)
(***************************************************************************)
\* C29: whenever the process dies during train() and is started again,
\* load_model succeeds and loads a classifier together with the label map
\* of the training run that fitted it.
C29_ModelFilesFromOneRun ==
  ret.op = "init" =>
    /\ ret.status = "ok"
    /\ ret.result.loaded.trained =>
         \A l \in DOMAIN ret.result.loaded.recognizer :
           /\ l \in DOMAIN ret.result.loaded.self_users
           /\ ret.result.loaded.self_users[l] = ret.result.loaded.recognizer[l]

\* C30: a register_user that does not return success leaves no identity
\* record behind: the identity records are those from before the call.
C30_NoPartialEnrollment ==
  \A p \in Threads :
    (pc[p] = "done" /\ loc[p].op = "register_user" /\ loc[p].status # "ok")
    => files = loc[p].pre_files

Database == tracker = "database"
Returned(op) == ret.op = op

IsPrefix(s, t) == Len(s) <= Len(t) /\ SubSeq(t, 1, Len(s)) = s

\* every list of pre is still there, in place, at the front of its list in cur
JsonKept(pre, cur) ==
  \A n \in DOMAIN pre :
    /\ n \in DOMAIN cur
    /\ \A d \in DOMAIN pre[n] : d \in DOMAIN cur[n] /\ IsPrefix(pre[n][d], cur[n][d])

\* C13: punch (accepted or rejected) and add_user leave every event stored
\* before the call unchanged and in place; delete_user removes nothing but
\* events of the user it names.
C13_EventsImmutable ==
  /\ (Database /\ (Returned("punch") \/ Returned("add_user")))
       => IsPrefix(ret.pre_att, attendance)
  /\ (Database /\ Returned("delete_user"))
       => LET user_id == get_user_id(ret.pre_users, ret.name)
          IN /\ SelectSeq(attendance, LAMBDA r : r.user_id # user_id)
                  = SelectSeq(ret.pre_att, LAMBDA r : r.user_id # user_id)
             /\ \/ attendance = ret.pre_att
                \/ attendance = SelectSeq(ret.pre_att, LAMBDA r : r.user_id # user_id)
  /\ (~Database /\ Returned("punch"))
       => /\ JsonKept(ret.pre_records, records)
          /\ ret.pre_file # <<>> => (data_file # <<>> /\ JsonKept(ret.pre_file[1], data_file[1]))

\* a punch was accepted while an event was already stored
C13_Witness ==
  /\ Database /\ Returned("punch") /\ ret.status = "ok"
  /\ Len(ret.pre_att) > 0
  /\ Len(attendance) = Len(ret.pre_att) + 1

\* C14: get_today_status, get_user_history, get_attendance_summary,
\* get_statistics and get_all_users leave the users and attendance tables
\* (for the JSON tracker: records in memory and on disk) as they were before
\* the call, also for unknown users.
QueryOps == {"get_today_status", "get_user_history", "get_attendance_summary",
             "get_statistics", "get_all_users"}

C14_QueriesReadOnly ==
  ret.op \in QueryOps =>
    IF Database
    THEN users = ret.pre_users /\ attendance = ret.pre_att
    ELSE records = ret.pre_records /\ data_file = ret.pre_file

\* the JSON tracker was asked for the status of a user it has no record of,
\* while it has records of another user
C14_Witness ==
  /\ ~Database /\ Returned("get_today_status")
  /\ ret.name \notin DOMAIN records
  /\ DOMAIN records # {}

\* C15: get_today_status(user) returns 'Not punched in' when the user has
\* no event on the current date (also a user with no record at all), and
\* otherwise the type and time of the event most recently recorded for the
\* user today, also when events of today share a one-second timestamp.
C15_StatusIsMostRecent ==
  (Database /\ Returned("get_today_status")) =>
    LET last == MostRecent(attendance, get_user_id(users, ret.name), StrfDate(ret.now))
    IN ret.msg = IF last = NoRow THEN <<"Not punched in">>
                 ELSE <<"Punched", Upper(last.punch_type), StrfTime(Strptime(last.punch_time))>>

\* C16: punch(u,'in'), punch(u,'in'), punch(u,'out'), get_today_status(u)
\* back to back on one date for a user without events today store exactly
\* the 'in' and the 'out' event, and the status is 'Punched OUT at' the time
\* of the out punch.  (The rejected second punch leaves the tables as they
\* were, so the state the status call sees is the one with these two events.)
C16_InInOutStatus ==
  (Database /\ Returned("get_today_status")) =>
    LET user_id == get_user_id(users, ret.name)
        today == SelectSeq(attendance,
                           LAMBDA r : r.user_id = user_id /\ r.date = StrfDate(ret.now))
    IN (/\ user_id # None
        /\ Len(today) = 2
        /\ today[1].punch_type = "in" /\ today[2].punch_type = "out"
        /\ today[2].punch_time - today[1].punch_time < DedupWindow)
       => ret.msg = <<"Punched", "OUT", StrfTime(Strptime(today[2].punch_time))>>

\* C17: get_user_history(name, days) lists the events of each date it
\* returns in ascending order of time, and the dates newest first.
C17_HistoryOrder ==
  (Database /\ Returned("get_user_history")) =>
    /\ \A k \in 1..Len(ret.msg) :
         \A i, j \in 1..Len(ret.msg[k].items) :
           i < j => ret.msg[k].items[i].time <= ret.msg[k].items[j].time
    /\ \A k, l \in 1..Len(ret.msg) : k < l => ret.msg[k].key > ret.msg[l].key

\* C18: get_user_history(name, days) returns no date with an empty list,
\* and at most `days` distinct dates.
C18_HistoryDates ==
  (Database /\ Returned("get_user_history")) =>
    /\ \A k \in 1..Len(ret.msg) : Len(ret.msg[k].items) > 0
    /\ \A k, l \in 1..Len(ret.msg) : k # l => ret.msg[k].key # ret.msg[l].key
    /\ Len(ret.msg) <= ret.days

\* the items a result holds under a key (none if the key is absent)
ItemsOf(dict, key) ==
  IF \E k \in 1..Len(dict) : dict[k].key = key
  THEN dict[CHOOSE k \in 1..Len(dict) : dict[k].key = key].items
  ELSE <<>>

UniqueKeys(dict) == \A k, l \in 1..Len(dict) : k # l => dict[k].key # dict[l].key

Count(items, e) == Cardinality({i \in 1..Len(items) : items[i] = e})

\* items holds each of the rows once: as many items as rows, and each
\* {type, time} as often as rows carry it
SameEvents(items, att, rows) ==
  /\ Len(items) = Cardinality(rows)
  /\ \A i \in rows :
       Count(items, Entry(att[i])) = Cardinality({j \in rows : Entry(att[j]) = Entry(att[i])})

StoredDates == {attendance[i].date : i \in 1..Len(attendance)}

\* C19: every stored event of an existing user appears exactly once in
\* get_user_history of its user under its date when days reaches back to
\* the oldest event, and exactly once in get_attendance_summary(date) under
\* its user; nothing else appears.
C19_RoundTrip ==
  /\ (/\ Database /\ Returned("get_user_history")
      /\ \A d \in StoredDates : d >= StrfDate(ret.now - ret.days * DayTicks))
       => /\ UniqueKeys(ret.msg)
          /\ \A d \in StoredDates \cup {ret.msg[k].key : k \in 1..Len(ret.msg)} :
               SameEvents(ItemsOf(ret.msg, d), attendance,
                          RowsOf(attendance, get_user_id(users, ret.name), d))
  /\ (Database /\ Returned("get_attendance_summary"))
       => /\ UniqueKeys(ret.msg)
          /\ \A k \in 1..Len(ret.msg) : ret.msg[k].key \in get_all_users(users)
          /\ \A u \in users :
               SameEvents(ItemsOf(ret.msg, u.name), attendance, RowsOf(attendance, u.id, ret.date))

\* the history of a user with events on two dates was read, the older date
\* being the first one that days still covers
C19_Witness ==
  /\ Database /\ Returned("get_user_history")
  /\ Len(ret.msg) = 2
  /\ \E d \in StoredDates : d = StrfDate(ret.now - ret.days * DayTicks)

\* C20: get_attendance_summary(date) has exactly one entry for every user
\* of the users table, an empty list for a user without punches on the
\* date, and each list holds the date's events of the user in ascending
\* order of time.
C20_SummaryComplete ==
  (Database /\ Returned("get_attendance_summary")) =>
    /\ UniqueKeys(ret.msg)
    /\ {ret.msg[k].key : k \in 1..Len(ret.msg)} = get_all_users(users)
    /\ \A u \in users :
         LET items == ItemsOf(ret.msg, u.name)
         IN /\ RowsOf(attendance, u.id, ret.date) = {} => items = <<>>
            /\ Len(items) = Cardinality(RowsOf(attendance, u.id, ret.date))
            /\ \A i \in RowsOf(attendance, u.id, ret.date) : Count(items, Entry(attendance[i])) > 0
            /\ \A i, j \in 1..Len(items) : i < j => items[i].time <= items[j].time

\* a summary with a user without punches and a user with two punches at
\* different times
C20_Witness ==
  /\ Database /\ Returned("get_attendance_summary")
  /\ \E k, l \in 1..Len(ret.msg) :
       /\ ret.msg[k].items = <<>>
       /\ Len(ret.msg[l].items) = 2
       /\ ret.msg[l].items[1].time < ret.msg[l].items[2].time


\* C21: get_statistics(start, end) returns by_type[t] = the number of stored
\* events of type t with start <= date <= end, by_user[u] = the number of
\* stored events of user u in that range, and daily[d] = the number of
\* distinct users with an event on d, for every date d of the range that
\* has events.
EventsInRange == {i \in 1..Len(attendance) :
                    ret.start_date <= attendance[i].date /\ attendance[i].date <= ret.end_date}

Get(dict, key) == IF key \in DOMAIN dict THEN dict[key] ELSE 0

C21_StatisticsCounts ==
  (Database /\ Returned("get_statistics")) =>
    /\ \A t \in DOMAIN ret.msg.by_type : ret.msg.by_type[t] > 0
    /\ \A t \in ValidTypes :
         Get(ret.msg.by_type, t)
           = Cardinality({i \in EventsInRange : attendance[i].punch_type = t})
    /\ DOMAIN ret.msg.by_user = {u.name : u \in users}
    /\ \A u \in users :
         ret.msg.by_user[u.name]
           = Cardinality({i \in EventsInRange : attendance[i].user_id = u.id})
    /\ DOMAIN ret.msg.daily = {attendance[i].date : i \in EventsInRange}
    /\ \A d \in DOMAIN ret.msg.daily :
         ret.msg.daily[d]
           = Cardinality({u \in users : \E i \in EventsInRange :
                            attendance[i].date = d /\ attendance[i].user_id = u.id})

\* statistics over a range in which one user punched twice on one date
C21_Witness ==
  /\ Database /\ Returned("get_statistics")
  /\ \E i, j \in EventsInRange :
       /\ i # j
       /\ attendance[i].user_id = attendance[j].user_id
       /\ attendance[i].date = attendance[j].date

\* C22: in both trackers every stored event has a punch type in
\* {in, out, break, lunch}; a punch with another type adds no event.
C22_ValidTypesOnly ==
  /\ \A i \in 1..Len(attendance) : attendance[i].punch_type \in ValidTypes
  /\ \A n \in DOMAIN records : \A d \in DOMAIN records[n] :
       \A i \in 1..Len(records[n][d]) : records[n][d][i].type \in ValidTypes

\* C28: in the JSON tracker a punch of the type of the user's last event of
\* the day is accepted and appended once 5 minutes have passed since that
\* event.
JsonDay(recs, name, date) ==
  IF name \in DOMAIN recs /\ date \in DOMAIN recs[name] THEN recs[name][date] ELSE <<>>

C28_JsonAcceptsAfterWindow ==
  (~Database /\ Returned("punch")) =>
    LET date == StrfDate(ret.now)
        before == JsonDay(ret.pre_records, ret.name, date)
    IN (/\ Len(before) > 0
        /\ before[Len(before)].type = ret.punch_type
        /\ StrfTime(ret.now) - before[Len(before)].time >= DedupWindow)
       => /\ ret.status = "ok"
          /\ JsonDay(records, ret.name, date)
               = Append(before, [type |-> ret.punch_type, time |-> StrfTime(ret.now)])

\* C27: no two rows of the users table carry the same name; add_user of a
\* name that already has a row fails with 'already exists' and leaves the
\* users and attendance tables as they were.
C27_NamesUnique ==
  /\ \A u, v \in users : u.name = v.name => u = v
  /\ (Database /\ Returned("add_user") /\ get_user_id(ret.pre_users, ret.name) # None)
       => /\ ret.status = "fail" /\ ret.msg = <<"already exists">>
          /\ users = ret.pre_users /\ attendance = ret.pre_att

\* add_user was refused for a user who already has punches
C27_Witness ==
  /\ Database /\ Returned("add_user") /\ ret.status = "fail"
  /\ \E i \in 1..Len(attendance) : attendance[i].user_id = get_user_id(users, ret.name)

(***************************************************************************)
(* Properties of the pages (SpecApp)                                       *)
(***************************************************************************)
\* C12: after Delete User succeeded for a name on the Settings page, the
\* name is no identity any more: FaceSystem.get_all_users() does not list
\* it and no label of the label map resolves to it.
C12_DeletedIsNoIdentity ==
  DeleteReturned =>
    /\ ret.name \notin face_get_all_users(dirExists, files)
    /\ \A label \in DOMAIN self_users : self_users[label] # ret.name

\* the last step was a run of the page Mark Attendance
PageReturned == caller_ret.op = "mark_attendance"

\* the names FaceSystem has enrolled: an identity record and a label
Enrolled == {n \in face_get_all_users(dirExists, files) :
               \E l \in DOMAIN self_users : self_users[l] = n}

\* C23: a run of Mark Attendance punches only when anti_spoof_check found
\* the frame live and recognize returned an enrolled name other than
\* "Unknown"; a frame that fails the liveness check is not passed to
\* recognize; for a frame without a face recognize returns (None, 0) and
\* there is no punch; and no other step of the pages adds an event.
C23_PunchOnlyAfterLiveAndKnown ==
  /\ [](PageReturned =>
          /\ caller_ret.punched =>
               /\ caller_ret.is_real /\ caller_ret.recognized
               /\ caller_ret.name \notin {NoIdentity, Unknown}
               /\ caller_ret.name \in Enrolled
               /\ detect_face(caller_ret.frame) # NoFace
               /\ ret.op = "punch" /\ ret.name = caller_ret.name
          /\ ~caller_ret.is_real => (~caller_ret.recognized /\ ~caller_ret.punched)
          /\ (caller_ret.recognized /\ detect_face(caller_ret.frame) = NoFace)
               => /\ caller_ret.name = NoIdentity /\ caller_ret.confidence = 0
                  /\ ~caller_ret.punched)
  /\ [][Len(attendance') > Len(attendance) => (PageReturned' /\ caller_ret'.punched)]_vars

\* a punch button was pressed under a frame that shows an enrolled face
\* but fails the liveness check, after an earlier punch of the same page
C23_Witness ==
  /\ PageReturned /\ ~caller_ret.is_real /\ caller_ret.button # NoButton
  /\ detect_face(caller_ret.frame) # NoFace
  /\ trained /\ attendance # <<>>

(***************************************************************************)
(* Properties of HybridStorage (SpecHybrid)                                *)
(***************************************************************************)
\* a call of the local tracker alone, as a step of the ledger
LocalCall ==
  \E n \in LedgerNames :
    \/ add_user(n)
    \/ delete_user(n)
    \/ \E t \in HybridTypes : punch(n, t)

\* C26: whatever the mirror does (initialized, not initialized, failing),
\* a call of HybridStorage returns the success flag of the local tracker,
\* and its step changes the ledger as the call of the local tracker alone
\* does.
C26_MirrorNeverDecides ==
  /\ [](caller_ret # NoCall => caller_ret.status = caller_ret.local)
  /\ [][caller_ret' # caller_ret => LocalCall]_vars

\* a punch was stored locally while the call of the mirror failed
C26_Witness ==
  /\ caller_ret # NoCall
  /\ caller_ret.mirror = "error" /\ caller_ret.status = "ok"
  /\ firebase.initialized /\ firebase.users = {}
  /\ users # {} /\ attendance # <<>>

\* C38: when the call of the local tracker did not succeed, HybridStorage
\* sends no write and no delete to the mirror.
C38_MirrorOnlyAfterLocalSuccess ==
  (caller_ret # NoCall /\ caller_ret.local # "ok") => caller_ret.mirror = "not called"

(***************************************************************************)
(* Properties of the migration (SpecMigrate)                               *)
(***************************************************************************)
\* the rows of the ledger that hold the record rec of user n on date d
RowsFor(n, d, rec) ==
  {i \in 1..Len(attendance) :
     /\ attendance[i].user_id = get_user_id(users, n)
     /\ attendance[i].date = d
     /\ attendance[i].punch_type = rec.type
     /\ attendance[i].punch_time = JoinDateTime(d, rec.time)}

\* C39: after a run of the migration every record of the JSON file is in
\* the attendance table exactly as often as it is in the file, so a second
\* run over the same file adds nothing.
C39_MigrateIdempotent ==
  (ret.op = "migrate" /\ ret.status = "ok") =>
    \A n \in DOMAIN data_file[1] :
      \A d \in DOMAIN data_file[1][n] :
        \A k \in 1..Len(data_file[1][n][d]) :
          Cardinality(RowsFor(n, d, data_file[1][n][d][k]))
            = Cardinality({j \in 1..Len(data_file[1][n][d]) :
                             data_file[1][n][d][j] = data_file[1][n][d][k]})

====
